---- MODULE Spec2Model ----
(***************************************************************************)
(* LeetShip: the submission-to-commit pipeline of the background service.  *)
(*                                                                         *)
(* State: the persisted commit queue, the processed-fingerprint list, the  *)
(* in-memory in-flight set, the token manager's tiers and validation       *)
(* cache, the secure GitHub configuration record, the remote repository,   *)
(* and the position of the queue drain (processQueuedCommits) between its  *)
(* awaits.                                                                 *)
(*                                                                         *)
(* Strings are sequences of tokens, so that String.includes, the template  *)
(* renderer and the path sanitizer are computed and not assumed.           *)
(***************************************************************************)
EXTENDS Integers, Sequences, FiniteSets, TLC

VARIABLES
    queue,        \* storage.local["LeetShip:queue"]: sequence of QueuedCommit
    processed,    \* storage.local["LeetShip:processed"]: set of fingerprints
    processing,   \* LeetShipBackgroundService.processing (in memory)
    drainPc,      \* processQueuedCommits: "scheduled" | "loop" | "commit" | "idle"
    drainQ,       \* the part of the drain's queue snapshot still to be visited
    tok,          \* TokenManager: session token, durable token, metadata, cache
    ghConfig,     \* secure:github:config: "none" | "set" | "blank"
    skipDuplicates, \* config.settings.skipDuplicates
    repo,         \* remote repository: path -> content ("absent" when missing)
    now,          \* the last value read from Date.now(), in milliseconds
    ev,           \* observation of the last handler that ran
    run,          \* observation of the last direct run of the commit protocol
    out,          \* what the last handler showed the user and answered
    config,       \* storage.local["LeetShip:config"].github: "none" | "blank" | "token"
    env,          \* the browser and the remote, as the credential store meets them
    hist,         \* the credential-store operations that came before the last
    page,         \* the LeetCode page the content script reads
    extracted,    \* what getSubmissionDetails returned for the page
    rendered,     \* the paths and the message the commit protocol computed
    call,         \* a createOrUpdateFile of its own: its position and what it saw
    controller,   \* LeetShipLeetCodeContent: isProcessing and its handler's position
    storageOps    \* the queue operations of StorageManager between their read and write

vars == <<queue, processed, processing, drainPc, drainQ, tok, ghConfig,
          skipDuplicates, repo, now, ev, run, out, config, env, hist,
          page, extracted, rendered, call, controller, storageOps>>

\* what only the content script, the template engine on its own and the
\* queue operations taken in two steps change
contentSide == <<page, extracted, rendered, controller, storageOps>>

\* what only a createOrUpdateFile run on its own changes
clientSide == <<call>>

\* what the background service leaves alone
tokenSide == <<env, hist, contentSide, clientSide>>

-----------------------------------------------------------------------------
(* Bounds of the model *)

MaxQueue == 1
MaxNow == 1

-----------------------------------------------------------------------------
(* Strings *)

Includes(msg, t) == \E i \in 1..Len(msg) : msg[i] = t

-----------------------------------------------------------------------------
(* Submissions that reach the background layer *)

Mk(id, slug, lang, code) ==
    [id |-> id, title |-> "Two Sum", titleSlug |-> slug, difficulty |-> "Easy",
     language |-> lang, code |-> code, runtime |-> "N/A", memory |-> "N/A"]

\* problem 1 solved in Python3; the source is given by its character codes
SubA == Mk("1", "two-sum", "Python3", <<65, 97>>)
Subs == {SubA}

isValidSubmission(s) ==
    /\ s.title # ""
    /\ s.titleSlug # ""
    /\ s.code # <<>>
    /\ s.language # ""

RECURSIVE HashFrom(_, _)
HashFrom(h, str) ==
    IF str = <<>> THEN h
    ELSE HashFrom(((h * 32) - h + Head(str)), Tail(str))

Abs(x) == IF x < 0 THEN -x ELSE x

Digits36 ==
    <<"0", "1", "2", "3", "4", "5", "6", "7", "8", "9", "a", "b", "c", "d", "e",
      "f", "g", "h", "i", "j", "k", "l", "m", "n", "o", "p", "q", "r", "s", "t",
      "u", "v", "w", "x", "y", "z">>

\* Number.prototype.toString(36) of a natural number, digit by digit
RECURSIVE toString36(_)
toString36(n) ==
    IF n < Len(Digits36) THEN <<Digits36[n + 1]>>
    ELSE toString36(n \div Len(Digits36)) \o <<Digits36[(n % Len(Digits36)) + 1]>>

\* the sources of Subs keep the running value far below 2^31, where the
\* "& 0xffffffff" of the code is the identity
simpleHash(str) == toString36(Abs(HashFrom(0, str)))

generateSubmissionKey(s) ==
    <<s.titleSlug, "-", s.language, "-", ToString(Len(s.code)), "-">>
        \o simpleHash(s.code)

-----------------------------------------------------------------------------
(* TemplateEngine *)

lower(t) ==
    CASE t = "Easy" -> "easy"
      [] t = "Medium" -> "medium"
      [] t = "Hard" -> "hard"
      [] t = "Python3" -> "python3"
      [] t = "Java" -> "java"
      [] OTHER -> t

PathIllegal == {"<", ">", ":", "\"", "/", "\\", "|", "?", "*"}

sanitizeChar(t) == IF t \in PathIllegal THEN "-" ELSE t

\* String.padStart(4, "0") on the ids of the model; an id of four characters
\* or more is returned as it is
padStart4(id) ==
    CASE id = "1" -> "0001"
      [] id = "2" -> "0002"
      [] id = "42" -> "0042"
      [] OTHER -> id

getVariables(s) ==
    [id |-> padStart4(s.id), slug |-> lower(sanitizeChar(s.titleSlug)),
     difficulty |-> lower(s.difficulty), lang |-> lower(s.language),
     title |-> s.title, runtime |-> s.runtime, memory |-> s.memory]

\* the default folder layout, "{{difficulty}}/{{id}}-{{slug}}"
folderLayout == <<"{{difficulty}}", "/", "{{id}}", "-", "{{slug}}">>

renderToken(t, v) ==
    CASE t = "{{id}}" -> v.id
      [] t = "{{slug}}" -> v.slug
      [] t = "{{difficulty}}" -> v.difficulty
      [] t = "{{lang}}" -> v.lang
      [] t = "{{title}}" -> v.title
      [] t = "{{runtime}}" -> v.runtime
      [] t = "{{memory}}" -> v.memory
      [] OTHER -> t

render(template, v) == [i \in 1..Len(template) |-> renderToken(template[i], v)]

\* String.replace(/\/+/g, "/"): a run of separators becomes one
RECURSIVE collapseSlashes(_)
collapseSlashes(path) ==
    IF Len(path) < 2 THEN path
    ELSE IF path[1] = "/" /\ path[2] = "/" THEN collapseSlashes(Tail(path))
    ELSE <<Head(path)>> \o collapseSlashes(Tail(path))

sanitizePath(path) == [i \in 1..Len(path) |-> sanitizeChar(path[i])]

generateFolderPath(template, v) == collapseSlashes(sanitizePath(render(template, v)))

\* the default commit message template
commitMessage ==
    <<"feat(leetcode): ", "AC ", "{{id}}", ". ", "{{title}}", " [", "{{difficulty}}",
      "] (", "{{lang}}", ")", " - runtime: ", "{{runtime}}", ", memory: ", "{{memory}}">>

generateCommitMessage(template, v) == render(template, v)

generateFilename(language) ==
    LET l == lower(language)
    IN CASE l \in {"python", "python3"} -> "solution.py"
         [] l = "java" -> "solution.java"
         [] OTHER -> "solution.txt"

FolderOf(s) == generateFolderPath(folderLayout, getVariables(s))
SolutionPath(s) == FolderOf(s) \o <<"/", generateFilename(s.language)>>
ProblemReadmePath(s) == FolderOf(s) \o <<"/", "README.md">>
RootReadme == <<"README.md">>

\* file contents; a file's sha is the hash of its content, so the content stands
\* for the sha as well
Content(kind, body) == [kind |-> kind, body |-> body]
Absent == Content("absent", <<>>)
NoSha == Content("none", <<>>)

\* generateFiles: the solution source, then the per-problem README
generateFiles(s) ==
    << [path |-> SolutionPath(s), content |-> Content("code", s.code)],
       [path |-> ProblemReadmePath(s), content |-> Content("readme", s.code)] >>

Paths == UNION {{SolutionPath(s), ProblemReadmePath(s)} : s \in Subs} \cup {RootReadme}

-----------------------------------------------------------------------------
(* The content script: LeetCodeV1 and LeetCodeV2.  A text is given by the    *)
(* number of white-space characters around it and the number of characters  *)
(* String.trim() leaves.                                                    *)

CodeFloor == 10
FallbackFloor == 20

NoText == [pad |-> 0, body |-> 0, none |-> TRUE]
Text(pad, body) == [pad |-> pad, body |-> body, none |-> FALSE]

Texts == {Text(0, 0), Text(2, 9), Text(0, 10), Text(0, 11)}
LongText == Text(0, 25)

TextLen(t) == t.pad + t.body
trim(t) == [t EXCEPT !.pad = 0]

\* what "!code" tests: null, or the empty string
isEmpty(t) == t.none \/ TextLen(t) = 0

\* the loop over the elements the code selectors match: the trimmed text of
\* the first that is longer than 10 characters
RECURSIVE firstLongEnough(_)
firstLongEnough(dom) ==
    IF dom = <<>> THEN NoText
    ELSE IF TextLen(trim(Head(dom))) > CodeFloor THEN trim(Head(dom))
    ELSE firstLongEnough(Tail(dom))

\* LeetCodeV1.getCode
getCodeV1(p) == firstLongEnough(p.dom)

\* LeetCodeV2.getCode, the last loop: a textarea holding more than 20
\* characters and one of the keywords
fromTextareas(p) ==
    IF ~p.textarea.none /\ TextLen(trim(p.textarea)) > FallbackFloor
    THEN trim(p.textarea) ELSE NoText

\* LeetCodeV2.getCode, the selectors and what follows them
fromSelectors(p, found) == IF ~found.none THEN found ELSE fromTextareas(p)

\* LeetCodeV2.getCode: the first monaco model as it is, else the selectors
getCodeV2(p) ==
    IF ~p.monaco.none THEN p.monaco ELSE fromSelectors(p, firstLongEnough(p.dom))

\* the ids the content script gives a submission
Clock == "1730000000000"
SubmissionId == "987654321"

Found(via, number, id, code) ==
    [found |-> TRUE, via |-> via, number |-> number,
     s |-> Mk(id, "two-sum", "Python3", code)]

NoSubmission ==
    [found |-> FALSE, via |-> "none", number |-> "1", s |-> Mk("", "", "", NoText)]

\* getSubmissionDetails of LeetCodeV1 and getSubmissionFromPage of
\* LeetCodeV2, once the code is read: the id is Date.now()
fromPage(p, via, code) ==
    IF ~p.title \/ isEmpty(code) THEN NoSubmission
    ELSE Found(via, p.number, Clock, code)

\* LeetCodeV2.getSubmissionFromGraphQL: the id is the submission's
getSubmissionFromGraphQL(p) ==
    IF p.graphql.none THEN NoSubmission
    ELSE Found("graphql", p.number, SubmissionId, p.graphql)

getSubmissionDetails(p) ==
    IF ~p.accepted THEN NoSubmission
    ELSE IF p.variant = "v1" THEN fromPage(p, "v1", getCodeV1(p))
    ELSE IF p.hasSubmissionId THEN getSubmissionFromGraphQL(p)
    ELSE fromPage(p, "page", getCodeV2(p))

MaxDom == 2

DomSeqs == UNION {[1..n -> Texts] : n \in 0..MaxDom}

\* the pages: the variant, whether the result reads "Accepted", whether a
\* submission id is in the URL, the detail record's code (none: the query
\* fails), the first monaco model, the elements the selectors match, a
\* further textarea, and whether a title element is there
Pages ==
    [variant : {"v1", "v2"}, accepted : BOOLEAN, hasSubmissionId : BOOLEAN,
     graphql : Texts \cup {NoText}, monaco : Texts \cup {NoText},
     dom : DomSeqs, textarea : {NoText, LongText}, title : BOOLEAN,
     number : {"1"}]

NoPage ==
    [variant |-> "v1", accepted |-> FALSE, hasSubmissionId |-> FALSE,
     graphql |-> NoText, monaco |-> NoText, dom |-> <<>>, textarea |-> NoText,
     title |-> FALSE, number |-> "1"]

\* what processCommit computes before it writes
NoRender(layout) ==
    [done |-> FALSE, layout |-> layout, vars |-> getVariables(Mk("", "", "", NoText)),
     folder |-> <<>>, paths |-> <<>>, message |-> <<>>]

\* the names generateFiles gives the two files
fileNames(s) == <<generateFilename(s.language), "README.md">>

fullPath(folder, name) == folder \o <<"/", name>>

Rendering(layout, s) ==
    [done |-> TRUE, layout |-> layout, vars |-> getVariables(s),
     folder |-> generateFolderPath(layout, getVariables(s)),
     paths |-> [i \in 1..Len(fileNames(s)) |->
                   fullPath(generateFolderPath(layout, getVariables(s)), fileNames(s)[i])],
     message |-> generateCommitMessage(commitMessage, getVariables(s))]

-----------------------------------------------------------------------------
(* Error messages, as the token sequences String.includes is applied to *)

BadCredentialsError ==
    <<"GitHub API error (", "401", "): ", "Bad credentials",
      ". Please re-authenticate with a valid token.">>
ApiError(status, body) == <<"GitHub API error (", status, "): ">> \o body
RateLimitError == <<"GitHub API rate limit exceeded. Please try again later.">>
ParseError == <<"Unexpected token">>
NetworkError == <<"Failed to fetch">>
NoTokenError == <<"No GitHub access token available">>
NoConfigError == <<"GitHub configuration not found">>
NoRepoError == <<"No repository configured">>
InvalidSubmissionError == <<"Invalid submission data">>
NoError == <<>>

-----------------------------------------------------------------------------
(* TokenManager.  v: whether a validation request sent to the remote in     *)
(* this step is answered 2xx (FALSE: any other status, or fetch throws).    *)

validateTokenWithCache(t, v) ==
    IF t.cache # "none"
    THEN [valid |-> t.cache = "valid", tok |-> t]
    ELSE [valid |-> v, tok |-> [t EXCEPT !.cache = IF v THEN "valid" ELSE "invalid"]]

\* refreshTokenFromStorage: metadata, then the durable token, then validation
refreshTokenFromStorage(t, v) == t.meta /\ t.durable /\ v

\* getGitHubToken, second half: recovery from the durable tier
RecoverToken(t, v) ==
    IF refreshTokenFromStorage(t, v)
    THEN [token |-> TRUE, tok |-> [t EXCEPT !.session = TRUE]]
    ELSE [token |-> FALSE, tok |-> t]

\* getGitHubToken, first half: r is the validation result of the session token
SessionTokenChecked(r, v) ==
    IF r.valid THEN [token |-> TRUE, tok |-> r.tok]
    ELSE RecoverToken([r.tok EXCEPT !.session = FALSE], v)

getGitHubToken(t, v) ==
    IF t.session THEN SessionTokenChecked(validateTokenWithCache(t, v), v)
    ELSE RecoverToken(t, v)

ForceClearsAll(t) ==
    [t EXCEPT !.session = FALSE, !.cache = "none", !.durable = FALSE, !.meta = FALSE]

\* TokenManager.forceTokenRefresh, reached through storage.forceTokenRefresh
forceTokenRefresh(t) == [t EXCEPT !.session = FALSE, !.cache = "none"]

\* storeGitHubToken(config): the access token goes to the session tier when it
\* is non-empty, the refresh token to the durable tier when it is non-empty
storeGitHubToken(t, hasAccess, hasRefresh) ==
    [t EXCEPT !.session = IF hasAccess THEN TRUE ELSE @,
              !.durable = IF hasRefresh THEN TRUE ELSE @,
              !.meta = TRUE]

\* storage.getDecryptedConfig: the secure record with the live token added back
WithToken(cfg, g) == [github |-> cfg, accessToken |-> g.token, tok |-> g.tok]

getDecryptedConfig(t, cfg, v) ==
    IF cfg = "none" THEN [github |-> cfg, accessToken |-> FALSE, tok |-> t]
    ELSE WithToken(cfg, getGitHubToken(t, v))

-----------------------------------------------------------------------------
(* GitHubAPI.  A plan is what the remote does during one handler step:      *)
(* v as above, and the calls of the commit protocol that fail: none, the    *)
(* at-th alone with a 401 or with another non-2xx status, or all of them    *)
(* because the network is down.  The calls of one run of the protocol are   *)
(* numbered 1..NCalls: read and write of the solution file (1, 2), of the   *)
(* per-problem README (3, 4), then the aggregate README: read (5), read     *)
(* again inside createOrUpdateFile (6), write (7).                          *)

FaultKinds == {"e401", "api"}
NCalls == 7

\* further answers: a 403 whose JSON body reports the rate limit, the same
\* naming a user id with 401 or 404 among its digits, a 403 with a JSON body
\* about permissions, a 403 whose body is no JSON, and a 409
ErrorKinds == FaultKinds \cup {"rate", "rate401", "rate404", "forbidden", "html", "conflict"}

FaultStatus(kind) ==
    CASE kind = "e401" -> "401"
      [] kind \in {"rate", "rate401", "rate404", "forbidden", "html"} -> "403"
      [] kind = "conflict" -> "409"
      [] OTHER -> "500"

\* a response body {"message": ...}, by the parts of its message
JsonBody(message) == <<"{\"message\":\"">> \o message \o <<"\"}">>

IsJson(body) == body # <<>> /\ body[1] = "{\"message\":\""

FaultBody(kind) ==
    CASE kind = "e401" -> JsonBody(<<"Bad credentials">>)
      [] kind = "rate" -> JsonBody(<<"API ", "rate limit", " exceeded for user ID 5">>)
      [] kind = "rate401" ->
             JsonBody(<<"API ", "rate limit", " exceeded for user ID 7", "401", "5">>)
      [] kind = "rate404" ->
             JsonBody(<<"API ", "rate limit", " exceeded for user ID 7", "404", "5">>)
      [] kind = "forbidden" ->
             JsonBody(<<"Resource not accessible by personal access token">>)
      [] kind = "html" -> <<"<html>", "Forbidden", "</html>">>
      [] kind = "conflict" -> JsonBody(<<"is at ", "0a1b", " but expected ", "2c3d">>)
      [] OTHER -> <<"Server Error">>

CleanPlan == [v |-> TRUE, at |-> 0, kind |-> "none"]
OfflinePlan == [v |-> FALSE, at |-> 1, kind |-> "net"]

Plans ==
    {CleanPlan, OfflinePlan} \cup
    {[v |-> TRUE, at |-> k, kind |-> f] : k \in 1..NCalls, f \in FaultKinds}

\* the plans under which the first call of a run is answered with each kind
\* of error
ErrorPlans ==
    {CleanPlan, OfflinePlan} \cup {[v |-> TRUE, at |-> 1, kind |-> f] : f \in ErrorKinds}

\* the plans the handlers of the background service are explored under: a
\* fault at the first call, at the first call after the solution file is
\* written, and at the first call of the aggregate README
HandlerPlans == {p \in Plans : p.at \in {0, 1, 3, 5}}

FailsCall(plan, n) == plan.at = n \/ plan.kind = "net"

\* what the remote answers to GET and PUT on the contents endpoint
RemoteGet(r, path) == IF r[path] = Absent THEN "404" ELSE "200"
RemotePut(r, path, sha) ==
    IF sha = NoSha
    THEN IF r[path] = Absent THEN "201" ELSE "422"
    ELSE IF r[path] = sha THEN "200" ELSE "409"

StatusBody(status) ==
    CASE status = "404" -> JsonBody(<<"Not Found">>)
      [] status = "409" -> JsonBody(<<"is at ", "0a1b", " but expected ", "2c3d">>)
      [] status = "422" -> JsonBody(<<"sha", " wasn't supplied">>)
      [] OTHER -> <<"Server Error">>

\* the try block of the 403 branch: JSON.parse throws, or the rate-limit
\* error is thrown where the message includes "rate limit"
ParseAndTest(body) ==
    IF ~IsJson(body) THEN ParseError
    ELSE IF Includes(body, "rate limit") THEN RateLimitError
    ELSE NoError

\* its catch block: whatever the try block threw is dropped
FallThrough(thrown) == NoError

\* the error makeRequest throws for a response that is not ok and not a 401
ErrorOf(status, body) ==
    IF status = "403" /\ FallThrough(ParseAndTest(body)) # NoError
    THEN FallThrough(ParseAndTest(body))
    ELSE ApiError(status, body)

\* makeRequest once getAuthHeaders has read the configuration conf; c is the
\* call context threaded through one run of the protocol
Send(c, conf, plan, method, path, sha, content) ==
    LET n == c.n + 1
        c1 == [c EXCEPT !.n = n, !.tok = conf.tok]
        fault == FailsCall(plan, n)
        status == IF fault THEN FaultStatus(plan.kind)
                  ELSE IF method = "GET" THEN RemoteGet(c.repo, path)
                  ELSE RemotePut(c.repo, path, sha)
        body == IF fault THEN FaultBody(plan.kind) ELSE StatusBody(status)
    IN IF conf.github = "none" \/ ~conf.accessToken
       THEN [c1 EXCEPT !.err = NoTokenError]
       ELSE IF fault /\ plan.kind = "net"
       THEN [c1 EXCEPT !.err = NetworkError]
       ELSE IF status = "401"
       THEN [c1 EXCEPT !.err = BadCredentialsError, !.saw401 = TRUE, !.status = status,
                       !.tok = forceTokenRefresh(conf.tok)]
       ELSE IF status \notin {"200", "201"}
       THEN [c1 EXCEPT !.err = ErrorOf(status, body), !.status = status]
       ELSE IF method = "GET"
       THEN [c1 EXCEPT !.got = c.repo[path], !.status = status]
       ELSE [c1 EXCEPT !.repo = [c.repo EXCEPT ![path] = content], !.status = status,
                       !.writes = Append(@, [path |-> path,
                                             how |-> IF sha = NoSha THEN "create" ELSE "update"])]

makeRequest(c, cfg, plan, method, path, sha, content) ==
    Send(c, getDecryptedConfig(c.tok, cfg, plan.v), plan, method, path, sha, content)

\* getFile's catch: null (absent) on an error whose message includes "404"
NotFoundAsAbsent(r) ==
    IF r.err # NoError /\ Includes(r.err, "404")
    THEN [r EXCEPT !.err = NoError, !.got = Absent]
    ELSE r

getFile(c, cfg, plan, path) ==
    NotFoundAsAbsent(makeRequest(c, cfg, plan, "GET", path, NoSha, Absent))

ForcedUpdate(c, cfg, plan, path, content, sha) ==
    makeRequest(c, cfg, plan, "PUT", path, c.repo[path], content)

updateFile(c, cfg, plan, path, content, sha) ==
    makeRequest(c, cfg, plan, "PUT", path, sha, content)

createFile(c, cfg, plan, path, content) ==
    makeRequest(c, cfg, plan, "PUT", path, NoSha, content)

AlwaysCreate(f, cfg, plan, path, content) ==
    IF f.err # NoError THEN f ELSE createFile(f, cfg, plan, path, content)

\* createOrUpdateFile after its read: f is the context getFile left
WriteAfterRead(f, cfg, plan, path, content) ==
    IF f.err # NoError THEN f
    ELSE IF f.got # Absent
         THEN updateFile(f, cfg, plan, path, content, f.got)
         ELSE createFile(f, cfg, plan, path, content)

createOrUpdateFile(c, cfg, plan, path, content) ==
    WriteAfterRead(getFile(c, cfg, plan, path), cfg, plan, path, content)

-----------------------------------------------------------------------------
(* CommitManager *)

Difficulties == {"easy", "medium", "hard"}

\* getAllSolutions: the per-problem READMEs found one folder below a
\* difficulty-named top-level folder
getAllSolutions(r) ==
    {p \in Paths : /\ r[p] # Absent
                   /\ Len(p) > 4
                   /\ p[1] \in Difficulties
                   /\ p[2] = "/"
                   /\ p[Len(p)] = "README.md"
                   /\ p[Len(p) - 1] = "/"
                   /\ \A i \in 3..(Len(p) - 2) : p[i] # "/"}

\* updateReadmeWithNewSubmission: the aggregate README is derived again
RewriteReadme(e, cfg, plan) ==
    IF e.err # NoError THEN e
    ELSE createOrUpdateFile(e, cfg, plan, RootReadme,
                            Content("index", <<Cardinality(getAllSolutions(e.repo))>>))

\* the catch of updateRepositoryReadme: every error is logged and swallowed
Swallow(w) == [w EXCEPT !.err = NoError]

updateRepositoryReadme(c, cfg, plan) ==
    Swallow(RewriteReadme(getFile(c, cfg, plan, RootReadme), cfg, plan))

NewContext(t, r) ==
    [tok |-> t, repo |-> r, n |-> 0, err |-> NoError, saw401 |-> FALSE,
     got |-> Absent, writes |-> <<>>, status |-> "none"]

\* the loop over the generated files; the first error ends it
RECURSIVE CommitFiles(_, _, _, _)
CommitFiles(c, cfg, plan, files) ==
    IF files = <<>> \/ c.err # NoError THEN c
    ELSE CommitFiles(createOrUpdateFile(c, cfg, plan, Head(files).path,
                                        Head(files).content),
                     cfg, plan, Tail(files))

ReadmeAfterAnyError(c, cfg, plan) ==
    updateRepositoryReadme([c EXCEPT !.err = NoError], cfg, plan)

\* processCommit after the loop: an error of the loop was thrown again
ThenReadme(c, cfg, plan) ==
    IF c.err # NoError THEN c ELSE updateRepositoryReadme(c, cfg, plan)

\* processCommit once the configuration conf is read
CommitWith(conf, cfg, r, s, plan) ==
    IF conf.github = "none" THEN [NewContext(conf.tok, r) EXCEPT !.err = NoConfigError]
    ELSE IF conf.github = "blank" THEN [NewContext(conf.tok, r) EXCEPT !.err = NoRepoError]
    ELSE ThenReadme(CommitFiles(NewContext(conf.tok, r), cfg, plan, generateFiles(s)),
                    cfg, plan)

processCommit(t, cfg, r, s, plan) ==
    CommitWith(getDecryptedConfig(t, cfg, plan.v), cfg, r, s, plan)

-----------------------------------------------------------------------------
(* StorageManager: the queue and the processed list *)

IndexOf(q, id) ==
    IF \E i \in 1..Len(q) : q[i].id = id
    THEN CHOOSE i \in 1..Len(q) : q[i].id = id /\ \A j \in 1..(i - 1) : q[j].id # id
    ELSE 0

addToCommitQueue(q, commit) == Append(q, commit)

removeFromCommitQueue(q, id) == SelectSeq(q, LAMBDA c : c.id # id)

updateCommitInQueue(q, id, retryCount, lastError) ==
    LET i == IndexOf(q, id)
    IN IF i = 0 THEN q
       ELSE [q EXCEPT ![i] = [@ EXCEPT !.retryCount = retryCount, !.lastError = lastError]]

-----------------------------------------------------------------------------
(* LeetShipBackgroundService *)

RetryLimit == 3

\* validateAuthentication: isAuthenticated(), then getGitHubToken() again.
\* getGitHubToken catches every error itself, so the gate answers with the
\* missing-auth signal only.
GateAnswer(g) ==
    [ok |-> g.token, tok |-> g.tok, prompt |-> IF g.token THEN "none" ELSE "setup"]

GateSecond(g, v) == IF ~g.token THEN GateAnswer(g) ELSE GateAnswer(getGitHubToken(g.tok, v))

validateAuthentication(t, v) == GateSecond(getGitHubToken(t, v), v)

\* handleInvalidToken -> GitHubAuth.clearInvalidToken: the configuration
\* fields are blanked and stored back; the empty access token is not written
\* to the session tier
BlankConfig(conf, cfg) ==
    IF conf.github = "none" THEN [tok |-> conf.tok, cfg |-> cfg]
    ELSE [tok |-> storeGitHubToken(conf.tok, FALSE, FALSE), cfg |-> "blank"]

clearInvalidToken(t, cfg, v) == BlankConfig(getDecryptedConfig(t, cfg, v), cfg)

\* the test of handleSubmissionAccepted's catch block
IsAuthError(err) == Includes(err, "Bad credentials") \/ Includes(err, "401")

NeverDuplicate(s, keys) == FALSE

isDuplicateSubmission(s, keys) == generateSubmissionKey(s) \in keys

markSubmissionProcessed(s, keys) == keys \cup {generateSubmissionKey(s)}

\* queueSubmissionForRetry: the id is "retry-" and Date.now()
RetryId(t) == <<"retry-", ToString(t)>>

queueSubmissionForRetry(q, s, err, t) ==
    addToCommitQueue(q, [id |-> RetryId(t), sub |-> s, retryCount |-> 0,
                         lastError |-> err])

\* what the last handler did: the handler and its result, the submission, the
\* kind of fault the remote showed, and whether the session tier held a token
\* beforehand
Observe(op, res, sub, plan, t0) ==
    [op |-> op, res |-> res, sub |-> sub, kind |-> plan.kind, auth |-> t0.session]

Quiet(op, res, sub) ==
    [op |-> op, res |-> res, sub |-> sub, kind |-> "none", auth |-> FALSE]

\* what a direct run of the commit protocol did: the fault planned, whether
\* the run resolved, whether a 401 was answered, the writes the remote took
ObserveRun(c, plan) ==
    [plan |-> plan, ok |-> c.err = NoError, saw401 |-> c.saw401,
     writes |-> c.writes]

NoRun == [plan |-> CleanPlan, ok |-> FALSE, saw401 |-> FALSE, writes |-> <<>>]

\* what the remote answers to a validation request (GET /rate_limit): a 2xx
\* status, a 401, or nothing because fetch throws
ValidationAnswers == {"2xx", "401", "throws"}

\* handleMessage, case SUBMISSION_ACCEPTED: what sendResponse is given once
\* handleSubmissionAccepted has returned, or has thrown
AcceptedResponse(threw) ==
    IF threw THEN [sent |-> TRUE, success |-> FALSE, error |-> TRUE]
    ELSE [sent |-> TRUE, success |-> TRUE, error |-> FALSE]

NoResponse == [sent |-> FALSE, success |-> FALSE, error |-> FALSE]

\* the notifications of the background service, by the method that shows them
handleMissingAuth == <<"setup">>
handleInvalidToken == <<"reauth">>
showSuccessNotification == <<"success">>
showErrorNotification == <<"error">>

PromptPerItem(va) ==
    IF va.prompt = "setup" THEN [i \in 1..Len(queue) |-> "setup"] ELSE <<>>

\* what the gate showed: handleMissingAuth, or nothing
GateNotes(va) == IF va.prompt = "setup" THEN handleMissingAuth ELSE <<>>

\* the outward effects of one handler: the notifications shown, the response
\* sent, the error the commit protocol ended with, and the answer the remote
\* had for a validation request
Outcome(notes, response, err, gate) ==
    [notes |-> notes, response |-> response, err |-> err, gate |-> gate]

Silent == Outcome(<<>>, NoResponse, NoError, "2xx")

EmptyRepo == [p \in Paths |-> Absent]
NoTokens ==
    [session |-> FALSE, durable |-> FALSE, meta |-> FALSE, cache |-> "none",
     fallback |-> FALSE, expires |-> 0]

\* storage.session is there and the stored token is accepted by the remote
PlainEnv == [session |-> TRUE, valid |-> TRUE]

\* no createOrUpdateFile has been started on its own
NoCall ==
    [pc |-> "idle", path |-> RootReadme, content |-> Absent, got |-> Absent,
     absent |-> FALSE, readStatus |-> "none", readKind |-> "none",
     writeStatus |-> "none", writeKind |-> "none", branch |-> "none",
     err |-> NoError]

\* the content script before any submit event: isProcessing, the position of
\* handleSubmission, the polls of waitForSubmission, whether the page shows a
\* result, the delayed extractions the mutation observer has scheduled, the
\* messages sent, the notifications shown, and how the handler ended
NoHandler ==
    [isProcessing |-> FALSE, pc |-> "idle", attempts |-> 0, complete |-> FALSE,
     timers |-> 0, sent |-> 0, notes |-> <<>>, ended |-> "none"]

\* the callers of the queue operations: the immediate path, the drain, and
\* the options page
Callers == {"immediate", "drain", "options"}

\* no queue operation is between its read and its write; added and removed
\* are the ids whose addToCommitQueue and removeFromCommitQueue have returned
NoOp == [op |-> "none", id |-> <<>>, snap |-> <<>>, retryCount |-> 0, lastError |-> <<>>]
NoOps == [at |-> [p \in Callers |-> NoOp], added |-> {}, removed |-> {}]

Init ==
    /\ queue = <<>>
    /\ processed = {}
    /\ processing = {}
    /\ drainPc = "scheduled"
    /\ drainQ = <<>>
    /\ tok = NoTokens
    /\ ghConfig = "none"
    /\ skipDuplicates \in BOOLEAN
    /\ repo = EmptyRepo
    /\ now = 0
    /\ ev = Quiet("init", "none", SubA)
    /\ run = NoRun
    /\ out = Silent
    /\ config = "none"
    /\ env = PlainEnv
    /\ hist = <<>>
    /\ page = NoPage
    /\ extracted = NoSubmission
    /\ rendered = NoRender(folderLayout)
    /\ call = NoCall
    /\ controller = NoHandler
    /\ storageOps = NoOps

\* handleAuthWithPAT: authenticateWithToken, then storage.setConfig
AuthWithPAT ==
    \E accepted \in BOOLEAN :
        LET conf == getDecryptedConfig(tok, ghConfig, accepted)
        IN /\ IF accepted
              THEN /\ tok' = storeGitHubToken(conf.tok, TRUE, FALSE)
                   /\ ghConfig' = "set"
                   /\ config' = "blank"
              ELSE UNCHANGED <<tok, ghConfig, config>>
           /\ ev' = Quiet("auth", IF accepted THEN "ok" ELSE "rejected", SubA)
           /\ out' = Silent
           /\ UNCHANGED <<queue, processed, processing, drainPc, drainQ,
                          skipDuplicates, repo, now, run, tokenSide>>

\* the values Date.now() can return next: the clock is in the millisecond of
\* the last reading still, or has moved on
Times == {t \in {now, now + 1} : t <= MaxNow}

\* the answer a plan has for a validation request
GateOf(plan) == IF plan.v THEN "2xx" ELSE "throws"

\* the catch block of handleSubmissionAccepted
SubmissionFailed(sub, c, err, plan) ==
    IF IsAuthError(err)
    THEN LET cl == clearInvalidToken(c.tok, ghConfig, plan.v)
         IN /\ tok' = cl.tok
            /\ ghConfig' = cl.cfg
            /\ config' = IF cl.cfg = "blank" THEN "blank" ELSE config
            /\ ev' = Observe("accepted", "reauth", sub, plan, tok)
            /\ out' = Outcome(handleInvalidToken, AcceptedResponse(FALSE), err,
                              GateOf(plan))
            /\ UNCHANGED <<queue, now>>
    ELSE /\ \E t \in Times :
                /\ now' = t
                /\ queue' = queueSubmissionForRetry(queue, sub, err, t)
         /\ tok' = c.tok
         /\ ev' = Observe("accepted", "queued", sub, plan, tok)
         /\ out' = Outcome(showErrorNotification, AcceptedResponse(FALSE), err,
                           GateOf(plan))
         /\ UNCHANGED <<ghConfig, config>>

\* handleSubmissionAccepted between the processing key's add and its delete,
\* for the submission sub while the remote follows plan, with room for bound
\* queued commits
Handle(sub, plan, bound) ==
        LET va == validateAuthentication(tok, plan.v)
            c0 == NewContext(va.tok, repo)
            c == processCommit(va.tok, ghConfig, repo, sub, plan)
        IN /\ Len(queue) < bound
           /\ UNCHANGED <<drainPc, drainQ, skipDuplicates, run, tokenSide>>
           /\ IF ~va.ok
              THEN /\ tok' = va.tok
                   /\ ev' = Observe("accepted", "noauth", sub, plan, tok)
                   /\ out' = Outcome(GateNotes(va), AcceptedResponse(FALSE),
                                     NoError, GateOf(plan))
                   /\ UNCHANGED <<queue, processed, ghConfig, config, repo, now>>
              ELSE IF ~isValidSubmission(sub)
              THEN /\ SubmissionFailed(sub, c0, InvalidSubmissionError, plan)
                   /\ UNCHANGED <<processed, repo>>
              ELSE IF skipDuplicates /\ isDuplicateSubmission(sub, processed)
              THEN /\ tok' = va.tok
                   /\ ev' = Observe("accepted", "duplicate", sub, plan, tok)
                   /\ out' = Outcome(<<>>, AcceptedResponse(FALSE), NoError,
                                     GateOf(plan))
                   /\ UNCHANGED <<queue, processed, ghConfig, config, repo, now>>
              ELSE IF c.err = NoError
              THEN /\ processed' = markSubmissionProcessed(sub, processed)
                   /\ repo' = c.repo
                   /\ tok' = c.tok
                   /\ ev' = Observe("accepted", "committed", sub, plan, tok)
                   /\ out' = Outcome(showSuccessNotification,
                                     AcceptedResponse(FALSE), NoError, GateOf(plan))
                   /\ UNCHANGED <<queue, ghConfig, config, now>>
              ELSE /\ SubmissionFailed(sub, c, c.err, plan)
                   /\ repo' = c.repo
                   /\ UNCHANGED processed

\* handleSubmissionAccepted as one step.  The processing key carries
\* Date.now() and is added and deleted by this one call, so the in-flight set
\* is as before.
Accepted(sub, plan, bound) == Handle(sub, plan, bound) /\ UNCHANGED processing

SubmissionAccepted == \E sub \in Subs, plan \in HandlerPlans : Accepted(sub, plan, MaxQueue)

\* processQueuedCommits: the queue is read, then the authentication gate
DrainStart ==
    \E answer \in ValidationAnswers :
        LET v == answer = "2xx"
            va == validateAuthentication(tok, v)
        IN /\ drainPc = "scheduled"
           /\ tok' = va.tok
           /\ IF va.ok /\ queue # <<>>
              THEN drainPc' = "loop" /\ drainQ' = queue
              ELSE drainPc' = "idle" /\ drainQ' = <<>>
           /\ ev' = Quiet("drain", IF va.ok THEN "start" ELSE "noauth", SubA)
           /\ out' = Outcome(GateNotes(va), NoResponse, NoError, answer)
           /\ UNCHANGED <<queue, processed, processing, ghConfig,
                          skipDuplicates, repo, now, run, config, tokenSide>>

NextPc(rest) == IF rest = <<>> THEN "idle" ELSE "loop"

AbandonLate(retryCount) == retryCount > RetryLimit

AbandonNever(retryCount) == FALSE

\* the test that abandons a queued commit
AbandonAt(retryCount) == retryCount >= RetryLimit

\* one turn of the loop up to the call of the commit protocol
DrainItemBegin ==
    LET item == Head(drainQ)
    IN /\ drainPc = "loop"
       /\ IF item.id \in processing
          THEN /\ drainQ' = Tail(drainQ)
               /\ drainPc' = NextPc(Tail(drainQ))
               /\ ev' = Quiet("drain", "skip", item.sub)
               /\ UNCHANGED <<queue, processing>>
          ELSE IF AbandonAt(item.retryCount)
          THEN /\ queue' = removeFromCommitQueue(queue, item.id)
               /\ drainQ' = Tail(drainQ)
               /\ drainPc' = NextPc(Tail(drainQ))
               /\ ev' = Quiet("drain", "abandon", item.sub)
               /\ UNCHANGED processing
          ELSE /\ processing' = processing \cup {item.id}
               /\ drainPc' = "commit"
               /\ ev' = Quiet("drain", "attempt", item.sub)
               /\ UNCHANGED <<queue, drainQ>>
       /\ out' = Silent
       /\ UNCHANGED <<processed, tok, ghConfig, skipDuplicates, repo, now, run,
                      config, tokenSide>>

\* the commit protocol for the item in hand while the remote follows plan,
\* and what follows it
Attempt(plan) ==
        LET item == Head(drainQ)
            c == processCommit(tok, ghConfig, repo, item.sub, plan)
        IN /\ drainPc = "commit"
           /\ repo' = c.repo
           /\ tok' = c.tok
           /\ IF c.err = NoError
              THEN /\ queue' = removeFromCommitQueue(queue, item.id)
                   /\ processed' = markSubmissionProcessed(item.sub, processed)
                   /\ ev' = Quiet("drain", "done", item.sub)
              ELSE /\ queue' = updateCommitInQueue(queue, item.id,
                                                   item.retryCount + 1, c.err)
                   /\ ev' = Quiet("drain", "failed", item.sub)
                   /\ UNCHANGED processed
           /\ processing' = processing \ {item.id}
           /\ drainQ' = Tail(drainQ)
           /\ drainPc' = NextPc(Tail(drainQ))
           /\ out' = Outcome(<<>>, NoResponse, c.err, GateOf(plan))
           /\ UNCHANGED <<ghConfig, skipDuplicates, now, run, config, tokenSide>>

DrainItemFinish == \E plan \in HandlerPlans : Attempt(plan)

\* handleMessage: what a message of the given type does to the drain.  The
\* switch has no case for PROCESS_QUEUE; the default answers with an error.
handleMessage(type, pc) ==
    CASE type \in {"SUBMISSION_ACCEPTED", "GET_STATUS", "TEST_CONNECTION",
                   "AUTH_WITH_PAT"} -> pc
      [] OTHER -> pc

\* OptionsPage.retryCommit
RetryCommit ==
    \E i \in 1..Len(queue) :
        /\ queue' = updateCommitInQueue(queue, queue[i].id, 0, NoError)
        /\ drainPc' = handleMessage("PROCESS_QUEUE", drainPc)
        /\ ev' = Quiet("retry", "sent", queue[i].sub)
        /\ out' = Silent
        /\ UNCHANGED <<processed, processing, drainQ, tok, ghConfig,
                       skipDuplicates, repo, now, run, config, tokenSide>>

\* OptionsPage.removeFromQueue
RemoveFromQueue ==
    \E i \in 1..Len(queue) :
        /\ queue' = removeFromCommitQueue(queue, queue[i].id)
        /\ ev' = Quiet("remove", "done", queue[i].sub)
        /\ out' = Silent
        /\ UNCHANGED <<processed, processing, drainPc, drainQ, tok, ghConfig,
                       skipDuplicates, repo, now, run, config, tokenSide>>

\* the background process ends and is constructed again; a browser restart
\* also empties the session tier where storage.session backs it
Restart ==
    \E browser \in BOOLEAN :
        /\ processing' = {}
        /\ drainPc' = "scheduled"
        /\ drainQ' = <<>>
        /\ tok' = [tok EXCEPT !.cache = "none",
                              !.session = IF browser THEN FALSE ELSE @]
        /\ ev' = Quiet("restart", IF browser THEN "browser" ELSE "worker", SubA)
        /\ out' = Silent
        /\ UNCHANGED <<queue, processed, ghConfig, skipDuplicates, repo, now, run,
                       config, tokenSide>>

\* CACHE_DURATION passes: the cached validation result is no longer used
CacheExpire ==
    /\ tok.cache # "none"
    /\ tok' = [tok EXCEPT !.cache = "none"]
    /\ ev' = Quiet("expire", "none", SubA)
    /\ out' = Silent
    /\ UNCHANGED <<queue, processed, processing, drainPc, drainQ, ghConfig,
                   skipDuplicates, repo, now, run, config, tokenSide>>

Next ==
    \/ AuthWithPAT
    \/ SubmissionAccepted
    \/ DrainStart
    \/ DrainItemBegin
    \/ DrainItemFinish
    \/ RetryCommit
    \/ RemoveFromQueue
    \/ Restart
    \/ CacheExpire

Spec == Init /\ [][Next]_vars

-----------------------------------------------------------------------------
(* The drain over a queue of two: the same handlers, with room for a second  *)
(* queued commit of the same submission, and a remote that answers without   *)
(* fault or fails the first call of a run.                                   *)

MaxDrain == 2

DrainPlans == {p \in HandlerPlans : p.at \in {0, 1}}

\* the duplicate check is switched on
InitDrain == Init /\ skipDuplicates

AcceptedAgain == \E sub \in Subs, plan \in DrainPlans : Accepted(sub, plan, MaxDrain)

AttemptItem == \E plan \in DrainPlans : Attempt(plan)

NextDrain ==
    \/ AuthWithPAT
    \/ AcceptedAgain
    \/ DrainStart
    \/ DrainItemBegin
    \/ AttemptItem
    \/ Restart

SpecDrain == InitDrain /\ [][NextDrain]_vars

-----------------------------------------------------------------------------
(* The handlers under every kind of error: an accepted submission and a      *)
(* drain attempt whose first remote call is answered with each of           *)
(* ErrorKinds, or not at all.                                                *)

AcceptedFault == \E sub \in Subs, plan \in ErrorPlans : Accepted(sub, plan, MaxQueue)

AttemptFault == \E plan \in ErrorPlans : Attempt(plan)

NextFaults ==
    \/ AuthWithPAT
    \/ AcceptedFault
    \/ DrainStart
    \/ DrainItemBegin
    \/ AttemptFault
    \/ Restart

SpecFaults == InitDrain /\ [][NextFaults]_vars

-----------------------------------------------------------------------------
(* The in-flight guard: handleSubmissionAccepted in two steps, from the add  *)
(* of its processing key to the first await, and from there to the delete    *)
(* in its finally block, so that two handlers can be under way at once.      *)

\* `${titleSlug}-${language}-${Date.now()}`
ProcessingKey(sub, t) == <<sub.titleSlug, "-", sub.language, "-", ToString(t)>>

\* the handlers of the immediate path that are under way for sub
InFlight(sub) == {k \in processing : \E t \in 0..MaxNow : k = ProcessingKey(sub, t)}

\* the processing key is built and tested; a handler whose key is in the
\* in-flight set returns at once
AcceptBegin ==
    \E sub \in Subs, t \in Times :
        /\ now' = t
        /\ IF ProcessingKey(sub, t) \in processing
           THEN /\ ev' = Quiet("accepted", "ignored", sub)
                /\ UNCHANGED processing
           ELSE /\ ev' = Quiet("accepted", "begun", sub)
                /\ processing' = processing \cup {ProcessingKey(sub, t)}
        /\ out' = Silent
        /\ UNCHANGED <<queue, processed, drainPc, drainQ, tok, ghConfig,
                       skipDuplicates, repo, run, config, tokenSide>>

\* the rest of a handler that is under way, and the delete of its key
AcceptFinish ==
    \E sub \in Subs, plan \in DrainPlans, k \in processing :
        /\ k \in InFlight(sub)
        /\ Handle(sub, plan, MaxQueue)
        /\ processing' = processing \ {k}

NextGuard ==
    \/ AuthWithPAT
    \/ AcceptBegin
    \/ AcceptFinish
    \/ Restart

SpecGuard == InitDrain /\ [][NextGuard]_vars

-----------------------------------------------------------------------------
(* The commit protocol on its own: CommitManager.processCommit is run for   *)
(* SubA against the repository as it stands, under every plan.              *)

InitCommit ==
    /\ queue = <<>>
    /\ processed = {}
    /\ processing = {}
    /\ drainPc = "idle"
    /\ drainQ = <<>>
    /\ tok = NoTokens
    /\ ghConfig = "none"
    /\ skipDuplicates = TRUE
    /\ repo = EmptyRepo
    /\ now = 0
    /\ ev = Quiet("init", "none", SubA)
    /\ run = NoRun
    /\ out = Silent
    /\ config = "none"
    /\ env = PlainEnv
    /\ hist = <<>>
    /\ page = NoPage
    /\ extracted = NoSubmission
    /\ rendered = NoRender(folderLayout)
    /\ call = NoCall
    /\ controller = NoHandler
    /\ storageOps = NoOps

CommitRun ==
    \E plan \in Plans :
        LET c == processCommit(tok, ghConfig, repo, SubA, plan)
        IN /\ repo' = c.repo
           /\ tok' = c.tok
           /\ run' = ObserveRun(c, plan)
           /\ ev' = Quiet("commit", IF c.err = NoError THEN "ok" ELSE "failed", SubA)
           /\ out' = Outcome(<<>>, NoResponse, c.err, GateOf(plan))
           /\ UNCHANGED <<queue, processed, processing, drainPc, drainQ, ghConfig,
                          skipDuplicates, now, config, tokenSide>>

NextCommit ==
    \/ AuthWithPAT
    \/ CommitRun
    \/ CacheExpire

SpecCommit == InitCommit /\ [][NextCommit]_vars

-----------------------------------------------------------------------------
(* The remote client on its own: GitHubAPI.createOrUpdateFile in its two     *)
(* requests, the read and the write, with every kind of answer to each and   *)
(* another writer that commits to the same path at any time.                 *)

FilePaths == {SolutionPath(SubA), RootReadme}

\* what this client writes, and what the other writer does
Ours == Content("code", SubA.code)
Theirs == Content("code", <<66>>)

\* createOrUpdateFile, first request: getFile
FileRead ==
    \E path \in FilePaths, plan \in ErrorPlans :
        LET r == getFile(NewContext(tok, repo), ghConfig, plan, path)
        IN /\ call.pc # "read"
           /\ tok' = r.tok
           /\ call' = [pc |-> IF r.err = NoError THEN "read" ELSE "done",
                       path |-> path, content |-> Ours, got |-> r.got,
                       absent |-> r.err = NoError /\ r.got = Absent,
                       readStatus |-> r.status, readKind |-> plan.kind,
                       writeStatus |-> "none", writeKind |-> "none",
                       branch |-> "none", err |-> r.err]
           /\ ev' = Quiet("read",
                          IF r.err # NoError THEN "failed"
                          ELSE IF r.got = Absent THEN "absent" ELSE "found", SubA)
           /\ out' = Outcome(<<>>, NoResponse, r.err, GateOf(plan))
           /\ UNCHANGED <<queue, processed, processing, drainPc, drainQ, ghConfig,
                          skipDuplicates, repo, now, run, config, env, hist,
                          contentSide>>

\* createOrUpdateFile, second request: updateFile with the sha that was read,
\* or createFile
FileWrite ==
    \E plan \in ErrorPlans :
        LET w == WriteAfterRead([NewContext(tok, repo) EXCEPT !.got = call.got],
                                ghConfig, plan, call.path, call.content)
        IN /\ call.pc = "read"
           /\ tok' = w.tok
           /\ repo' = w.repo
           /\ call' = [call EXCEPT !.pc = "done", !.writeStatus = w.status,
                                   !.writeKind = plan.kind,
                                   !.branch = IF call.got # Absent THEN "update"
                                              ELSE "create",
                                   !.err = w.err]
           /\ ev' = Quiet("write", IF w.err = NoError THEN "ok" ELSE "failed", SubA)
           /\ out' = Outcome(<<>>, NoResponse, w.err, GateOf(plan))
           /\ UNCHANGED <<queue, processed, processing, drainPc, drainQ, ghConfig,
                          skipDuplicates, now, run, config, env, hist, contentSide>>

\* another writer commits its own content at one of the paths
ExternalWrite ==
    \E path \in FilePaths :
        /\ repo[path] # Theirs
        /\ repo' = [repo EXCEPT ![path] = Theirs]
        /\ ev' = Quiet("external", "written", SubA)
        /\ out' = Silent
        /\ UNCHANGED <<queue, processed, processing, drainPc, drainQ, tok, ghConfig,
                       skipDuplicates, now, run, config, tokenSide>>

NextFile ==
    \/ AuthWithPAT
    \/ FileRead
    \/ FileWrite
    \/ ExternalWrite

SpecFile == InitCommit /\ [][NextFile]_vars

-----------------------------------------------------------------------------
(* The credential store on its own: TokenManager and SecureStorage under    *)
(* the operations of StorageManager, in a browser with or without           *)
(* storage.session, against a remote that accepts the stored token until    *)
(* it is revoked.                                                           *)

HistLen == 2

\* what the operations of the credential store leave alone
serviceSide ==
    <<queue, processed, processing, drainPc, drainQ, skipDuplicates, repo, now, run,
      contentSide, clientSide>>

\* SecureStorage keeps the session token under storage.session, or, where
\* that is missing, under "session:" in storage.local: the token record with
\* the two copies exchanged is what the token manager works on there
Swap(t) == [t EXCEPT !.session = t.fallback, !.fallback = t.session]

\* getSessionData and clearSessionData: the copy they read and remove
Tier(t, e) == IF e.session THEN t ELSE Swap(t)

\* setSessionData: the copy it writes; a storage.session.set that throws is
\* caught and the token written under "session:" in storage.local
TierWritten(t, e, setOk) == IF e.session /\ setOk THEN t ELSE Swap(t)

\* the answers the remote can have for a validation request
Answers(e) == {"throws"} \cup (IF e.valid THEN {"2xx"} ELSE {"401"})

Remember(h, e) ==
    LET a == Append(h, [op |-> e.op, res |-> e.res])
    IN IF Len(a) > HistLen THEN Tail(a) ELSE a

\* a token the session tier or the durable tier holds
Held(t, e) == Tier(t, e).session \/ t.durable

InitToken ==
    /\ queue = <<>>
    /\ processed = {}
    /\ processing = {}
    /\ drainPc = "idle"
    /\ drainQ = <<>>
    /\ tok = NoTokens
    /\ ghConfig = "none"
    /\ skipDuplicates = TRUE
    /\ repo = EmptyRepo
    /\ now = 0
    /\ ev = Quiet("init", "none", SubA)
    /\ run = NoRun
    /\ out = Silent
    /\ config = "none"
    /\ env \in {[session |-> a, valid |-> TRUE] : a \in BOOLEAN}
    /\ hist = <<>>
    /\ page = NoPage
    /\ extracted = NoSubmission
    /\ rendered = NoRender(folderLayout)
    /\ call = NoCall
    /\ controller = NoHandler
    /\ storageOps = NoOps

\* StorageManager.setConfig with the configuration the AUTH_WITH_PAT flow
\* builds (the access token, an empty refresh token): the same token again,
\* or a new one the remote accepts, for which the cache has no entry
SetConfig ==
    \E setOk \in BOOLEAN, fresh \in BOOLEAN :
        /\ fresh \/ env.valid
        /\ setOk \/ env.session
        /\ tok' = [TierWritten(storeGitHubToken(TierWritten(tok, env, setOk),
                                                TRUE, FALSE), env, setOk)
                      EXCEPT !.cache = IF fresh THEN "none" ELSE @]
        /\ ghConfig' = "set"
        /\ config' = "blank"
        /\ env' = [env EXCEPT !.valid = TRUE]
        /\ ev' = Quiet("store", IF env.session /\ setOk THEN "session" ELSE "fallback",
                       SubA)
        /\ out' = Silent
        /\ hist' = Remember(hist, ev)
        /\ UNCHANGED serviceSide

\* TokenManager.getGitHubToken
GetToken ==
    \E answer \in Answers(env) :
        LET g == getGitHubToken(Tier(tok, env), answer = "2xx")
        IN /\ tok' = Tier(g.tok, env)
           /\ ev' = Quiet("get", IF g.token THEN "token" ELSE "absent", SubA)
           /\ out' = Outcome(<<>>, NoResponse, NoError, answer)
           /\ hist' = Remember(hist, ev)
           /\ UNCHANGED <<serviceSide, ghConfig, config, env>>

\* the legacy branch of StorageManager.getDecryptedConfig: no secure record,
\* and a token in the plain record, which is stored through the token manager
MigrateLegacy(t, e, setOk) ==
    TierWritten(storeGitHubToken(TierWritten(t, e, setOk), TRUE, FALSE), e, setOk)

\* StorageManager.getDecryptedConfig
LoadConfig ==
    \E answer \in Answers(env), setOk \in BOOLEAN :
        /\ setOk \/ env.session
        /\ IF ghConfig # "none"
           THEN LET conf == getDecryptedConfig(Tier(tok, env), ghConfig, answer = "2xx")
                IN /\ setOk
                   /\ tok' = Tier(conf.tok, env)
                   /\ ev' = Quiet("load", IF conf.accessToken THEN "token" ELSE "absent",
                                  SubA)
                   /\ UNCHANGED ghConfig
           ELSE IF config = "token"
           THEN /\ tok' = MigrateLegacy(tok, env, setOk)
                /\ ghConfig' = "set"
                /\ ev' = Quiet("load", "migrated", SubA)
           ELSE /\ setOk
                /\ ev' = Quiet("load", "absent", SubA)
                /\ UNCHANGED <<tok, ghConfig>>
        /\ out' = Outcome(<<>>, NoResponse, NoError, answer)
        /\ hist' = Remember(hist, ev)
        /\ UNCHANGED <<serviceSide, config, env>>

\* the browser or the session ends: storage.session and the in-memory
\* validation cache are gone, storage.local is kept
LoseSession ==
    /\ tok' = [tok EXCEPT !.session = FALSE, !.cache = "none"]
    /\ ev' = Quiet("lose", IF tok.session THEN "lost" ELSE "nothing", SubA)
    /\ out' = Silent
    /\ hist' = Remember(hist, ev)
    /\ UNCHANGED <<serviceSide, ghConfig, config, env>>

\* TokenManager.clearAllTokens: the session copy, then the three secure
\* records, then the validation cache
clearAllTokens(t, e) ==
    [Tier([Tier(t, e) EXCEPT !.session = FALSE], e)
        EXCEPT !.durable = FALSE, !.meta = FALSE, !.cache = "none"]

ClearAllTokens ==
    /\ tok' = clearAllTokens(tok, env)
    /\ ghConfig' = "none"
    /\ ev' = Quiet("clear", "tokens", SubA)
    /\ out' = Silent
    /\ hist' = Remember(hist, ev)
    /\ UNCHANGED <<serviceSide, config, env>>

\* StorageManager.clearAll: clearAllTokens, storage.local.clear(), and
\* storage.session.clear() where there is one
ClearAll ==
    /\ tok' = [clearAllTokens(tok, env) EXCEPT !.fallback = FALSE, !.session = FALSE]
    /\ ghConfig' = "none"
    /\ config' = "none"
    /\ queue' = <<>>
    /\ processed' = {}
    /\ ev' = Quiet("clear", "all", SubA)
    /\ out' = Silent
    /\ hist' = Remember(hist, ev)
    /\ UNCHANGED <<processing, drainPc, drainQ, skipDuplicates, repo, now, run, env,
                   contentSide, clientSide>>

\* StorageManager.forceTokenRefresh: the token manager's, then the token
\* fields of the plain record are emptied
ForceTokenRefresh ==
    /\ tok' = Tier(forceTokenRefresh(Tier(tok, env)), env)
    /\ config' = IF config = "none" THEN "none" ELSE "blank"
    /\ ev' = Quiet("force", "done", SubA)
    /\ out' = Silent
    /\ hist' = Remember(hist, ev)
    /\ UNCHANGED <<serviceSide, ghConfig, env>>

\* firefox-background.js, handleAuthWithPAT: the configuration, access token
\* included, is written to the plain record
FirefoxAuthWithPAT ==
    \E accepted \in BOOLEAN :
        /\ config' = IF accepted THEN "token" ELSE config
        /\ ev' = Quiet("firefox-auth", IF accepted THEN "ok" ELSE "rejected", SubA)
        /\ out' = Silent
        /\ hist' = Remember(hist, ev)
        /\ UNCHANGED <<serviceSide, tok, ghConfig, env>>

\* the token is revoked at the remote
Revoke ==
    /\ env.valid
    /\ env' = [env EXCEPT !.valid = FALSE]
    /\ ev' = Quiet("revoke", "done", SubA)
    /\ out' = Silent
    /\ hist' = Remember(hist, ev)
    /\ UNCHANGED <<serviceSide, tok, ghConfig, config>>

NextToken ==
    \/ SetConfig
    \/ GetToken
    \/ LoadConfig
    \/ LoseSession
    \/ ClearAllTokens
    \/ ClearAll
    \/ ForceTokenRefresh
    \/ FirefoxAuthWithPAT
    \/ Revoke
    \/ CacheExpire

SpecToken == InitToken /\ [][NextToken]_vars

-----------------------------------------------------------------------------
(* The content script on its own: getSubmissionDetails is applied to every  *)
(* page of Pages.                                                            *)

\* the background service and the credential store as they are constructed
Untouched ==
    /\ queue = <<>>
    /\ processed = {}
    /\ processing = {}
    /\ drainPc = "idle"
    /\ drainQ = <<>>
    /\ tok = NoTokens
    /\ ghConfig = "none"
    /\ skipDuplicates = TRUE
    /\ repo = EmptyRepo
    /\ now = 0
    /\ ev = Quiet("init", "none", SubA)
    /\ run = NoRun
    /\ out = Silent
    /\ config = "none"
    /\ env = PlainEnv
    /\ hist = <<>>
    /\ call = NoCall
    /\ controller = NoHandler
    /\ storageOps = NoOps

backgroundSide ==
    <<queue, processed, processing, drainPc, drainQ, tok, ghConfig, skipDuplicates,
      repo, now, run, out, config, env, hist, call, controller,
      storageOps>>

InitExtract ==
    /\ Untouched
    /\ page \in Pages
    /\ extracted = NoSubmission
    /\ rendered = NoRender(folderLayout)

\* LeetShipLeetCodeContent.handleSubmission: the page is read
Extract ==
    /\ ev.op = "init"
    /\ extracted' = getSubmissionDetails(page)
    /\ ev' = Quiet("extract",
                   IF getSubmissionDetails(page).found THEN "submission" ELSE "absent",
                   SubA)
    /\ UNCHANGED <<backgroundSide, page, rendered>>

NextExtract == Extract

SpecExtract == InitExtract /\ [][NextExtract]_vars

-----------------------------------------------------------------------------
(* The template engine on its own: processCommit's paths and message for    *)
(* the submissions the producers of the repository build.                   *)

Numbers == {"1", "42", "1234"}
Producers == {"api", "graphql", "page"}

\* the id each producer gives a submission of problem number n:
\* LeetCodeAPI.parseSubmissionFromDetails the question's id,
\* getSubmissionFromGraphQL the submission's id, the page readers Date.now()
IdOf(via, n) ==
    CASE via = "api" -> n
      [] via = "graphql" -> SubmissionId
      [] OTHER -> Clock

Layouts ==
    {folderLayout, <<"{{slug}}">>, <<"{{difficulty}}", "/", "/", "{{slug}}">>}

Submissions ==
    {[Found(via, n, IdOf(via, n), Text(0, 11))
         EXCEPT !.s.difficulty = d, !.s.language = l, !.s.titleSlug = g] :
       via \in Producers, n \in Numbers, d \in {"Easy", "Medium", "Hard"},
       l \in {"Python3", "Java"}, g \in {"two-sum", "add-two-numbers"}}

InitTemplate ==
    /\ Untouched
    /\ page = NoPage
    /\ extracted \in Submissions
    /\ rendered \in {NoRender(layout) : layout \in Layouts}

\* CommitManager.processCommit up to its first request
Render ==
    /\ extracted.found
    /\ ~rendered.done
    /\ rendered' = Rendering(rendered.layout, extracted.s)
    /\ ev' = Quiet("render", "done", SubA)
    /\ UNCHANGED <<backgroundSide, page, extracted>>

NextTemplate == Render

SpecTemplate == InitTemplate /\ [][NextTemplate]_vars

-----------------------------------------------------------------------------
(* Properties.  Each is checked under the specification named with it.      *)

Existing(r) == {p \in Paths : r[p] # Absent}

\* C1 (Spec): in every reachable state every queued commit has a retryCount
\* of at most 3, whatever drains fail and whatever the user retries or removes.
C1_RetryBound == \A i \in 1..Len(queue) : queue[i].retryCount <= RetryLimit

\* a failed drain attempt has just brought a queued commit to retryCount 3
C1_AtLimit ==
    /\ ev.op = "drain" /\ ev.res = "failed"
    /\ \E i \in 1..Len(queue) : queue[i].retryCount = RetryLimit

\* C2 (Spec): the drain runs the commit protocol only for an item whose
\* retryCount is below 3; an item at 3 or above is taken out of the queue in
\* the same step, with no commit attempt, and the processed list and the
\* repository stay as they were.
C2_NoCommitAtLimit ==
    /\ [](drainPc = "commit" => Head(drainQ).retryCount < RetryLimit)
    /\ [][(drainPc = "loop" /\ ev'.op = "drain") =>
            LET item == Head(drainQ)
            IN /\ item.retryCount >= RetryLimit =>
                      (ev'.res \in {"abandon", "skip"} /\ drainPc' # "commit")
               /\ ev'.res = "abandon" =>
                      /\ item.retryCount >= RetryLimit
                      /\ \A i \in 1..Len(queue') : queue'[i].id # item.id
                      /\ processed' = processed
                      /\ repo' = repo]_vars

\* the drain has just abandoned a queued commit
C2_Abandoned ==
    /\ ev.op = "drain" /\ ev.res = "abandon"
    /\ queue = <<>>
    /\ processed = {}

\* C3 (Spec): a drain attempt that fails leaves the item in the queue with
\* its stored retryCount one higher than it was before the attempt ended.
C3_FailureAddsOne ==
    [][(drainPc = "commit" /\ ev'.op = "drain" /\ ev'.res = "failed") =>
        \A i \in 1..Len(queue) :
            queue[i].id = Head(drainQ).id =>
                /\ i <= Len(queue')
                /\ queue'[i].retryCount = queue[i].retryCount + 1]_vars

C5_FailureQueued ==
    [][(ev'.op = "accepted" /\ ev'.res \notin {"committed", "duplicate", "noauth"}) =>
        /\ Len(queue') = Len(queue) + 1
        /\ queue'[Len(queue')].retryCount = 0
        /\ queue'[Len(queue')].lastError # NoError]_vars

\* C6 (Spec): an accepted submission that arrives while every remote call
\* fails, at a service that held a token, is placed on the queue (or skipped
\* as a duplicate).
C6_OfflineQueued ==
    (ev.op = "accepted" /\ ev.kind = "net" /\ ev.auth) =>
        ev.res \in {"queued", "duplicate"}

\* C7 (Spec): while the service holds a validated token and the queue is not
\* empty, a drain is scheduled or under way.
C7_DrainRecurs ==
    (queue # <<>> /\ tok.session /\ tok.cache = "valid") => drainPc # "idle"

\* C8 (Spec): once the retry action has sent PROCESS_QUEUE, a drain is
\* scheduled or under way.
C8_RetryDrains == ev.op = "retry" => drainPc # "idle"

\* C9 (SpecCommit): a run of the commit protocol that meets no fault, made
\* with a session token the validation cache does not hold as invalid,
\* resolves, replaces every file that existed under its current hash, and
\* removes no path; right after a run that met no fault either, it writes all
\* three files as updates and the set of paths is the same as before it.
C9_SecondRunUpdates ==
    [][(/\ ev'.op = "commit"
        /\ run'.plan = CleanPlan
        /\ tok.session
        /\ tok.cache # "invalid"
        /\ ghConfig = "set") =>
            /\ run'.ok
            /\ \A i \in 1..Len(run'.writes) :
                   repo[run'.writes[i].path] # Absent => run'.writes[i].how = "update"
            /\ Existing(repo) \subseteq Existing(repo')
            /\ (ev.op = "commit" /\ run.plan = CleanPlan /\ run.ok) =>
                   /\ Len(run'.writes) = 3
                   /\ \A i \in 1..3 : run'.writes[i].how = "update"
                   /\ Existing(repo') = Existing(repo)]_vars

\* a run without fault has just updated all three files
C9_Updated ==
    /\ ev.op = "commit"
    /\ run.plan = CleanPlan
    /\ run.ok
    /\ Len(run.writes) = 3
    /\ \A i \in 1..3 : run.writes[i].how = "update"

\* C10 (SpecCommit): a run of the commit protocol in which the remote
\* answered 401 to a call ends as a failure, with the session token cleared.
C10_UnauthorizedFails == run.saw401 => (~run.ok /\ ~tok.session)

\* the number of re-authentication prompts among the notifications shown
ReauthCount(notes) == Cardinality({i \in 1..Len(notes) : notes[i] = "reauth"})

\* C11 (Spec): whenever the commit protocol, run for an accepted submission
\* or for a queued commit by the drain, ends with the error of a 401 answer,
\* the handler shows the re-authentication prompt exactly once.
C11_OnePromptPer401 ==
    (ev.op \in {"accepted", "drain"} /\ out.err = BadCredentialsError) =>
        ReauthCount(out.notes) = 1

\* C12 (Spec): a gate that fails where no credential was ever stored shows
\* the setup prompt, and a gate that fails because the remote answered 401 to
\* the validation of the stored session token shows the re-authentication
\* prompt instead.
C12_GateSignals ==
    [][(ev'.op \in {"accepted", "drain"} /\ ev'.res = "noauth") =>
        /\ (~tok.meta /\ ~tok.session) => out'.notes = handleMissingAuth
        /\ (tok.session /\ tok.cache = "none" /\ out'.gate = "401") =>
               out'.notes = handleInvalidToken]_vars

\* C13 (Spec): the response to SUBMISSION_ACCEPTED has success = true only
\* when the submission is in the repository (committed now, or skipped as the
\* duplicate of a committed one); otherwise it has success = false and
\* carries an error.
C13_SuccessMeansCommitted ==
    (ev.op = "accepted" /\ out.response.sent) =>
        IF ev.res \in {"committed", "duplicate"}
        THEN out.response.success
        ELSE ~out.response.success /\ out.response.error

\* C14 (SpecToken): whenever the session tier or the durable tier holds a
\* token the remote accepts, getGitHubToken returns it and leaves it where it
\* was, also when the validation request fails because fetch throws.
C14_ValidTokenReturned ==
    [][(ev'.op = "get" /\ env.valid /\ Held(tok, env)) =>
        (ev'.res = "token" /\ Held(tok', env'))]_vars

\* C15 (SpecToken): after setConfig has stored an accepted personal access
\* token in storage.session, and the session has ended, and nothing else has
\* happened, getGitHubToken answered 2xx at validation returns the token and
\* the session tier holds it again.
C15_RecoveredAfterRestart ==
    (/\ ev.op = "get"
     /\ out.gate = "2xx"
     /\ hist = <<[op |-> "store", res |-> "session"],
                 [op |-> "lose", res |-> "lost"]>>) =>
        (ev.res = "token" /\ tok.session)

\* C16 (SpecToken): in every reachable state the plain configuration record
\* LeetShip:config holds no access token.
C16_NoTokenInPlainRecord == config # "token"

\* C17 (SpecToken): once clearAllTokens or clearAll has completed, neither
\* storage.session, nor storage.local (the durable token and the "session:"
\* copy), nor the validation cache holds a token, and a getGitHubToken that
\* follows returns absent and leaves them empty.
C17_ClearAllLeavesNothing ==
    /\ [](ev.op = "clear" =>
            (~tok.session /\ ~tok.fallback /\ ~tok.durable /\ tok.cache = "none"))
    /\ [][(ev.op = "clear" /\ ev'.op = "get") =>
            (ev'.res = "absent" /\ ~tok'.session /\ ~tok'.fallback /\ ~tok'.durable)]_vars

\* C18 (SpecExtract): for every page and every extraction path of both
\* variants, a submission that getSubmissionDetails yields has code longer
\* than 10 characters.
C18_NoShortCode == extracted.found => TextLen(extracted.s.code) > CodeFloor

\* String.includes on token sequences: part occurs in msg as a run
Contains(msg, part) ==
    \E i \in 0..(Len(msg) - Len(part)) : \A j \in 1..Len(part) : msg[i + j] = part[j]

\* C19 (SpecTemplate): with the layout "{{difficulty}}/{{id}}-{{slug}}" and
\* the variables id "0001", difficulty "easy", slug "two-sum", the folder
\* path is "easy/0001-two-sum", and each file is written right below it.
C19_FolderKeepsSeparator ==
    (/\ rendered.done
     /\ rendered.layout = folderLayout
     /\ rendered.vars.id = "0001"
     /\ rendered.vars.difficulty = "easy"
     /\ rendered.vars.slug = "two-sum") =>
        /\ rendered.folder = <<"easy", "/", "0001", "-", "two-sum">>
        /\ \A i \in 1..Len(rendered.paths) :
               SubSeq(rendered.paths[i], 1, 6) = <<"easy", "/", "0001", "-", "two-sum", "/">>

\* C20 (SpecTemplate): for a submission of problem number 1, "Two Sum",
\* two-sum, Easy, Python3, whatever producer built it, and the default
\* templates, the variable id is "0001", the files are solution.py and
\* README.md under easy/0001-two-sum/, and the commit message contains
\* "AC 0001. Two Sum [easy] (python3)".
C20_TwoSumFiles ==
    (/\ rendered.done
     /\ rendered.layout = folderLayout
     /\ extracted.number = "1"
     /\ extracted.s.title = "Two Sum"
     /\ extracted.s.titleSlug = "two-sum"
     /\ extracted.s.difficulty = "Easy"
     /\ extracted.s.language = "Python3") =>
        /\ rendered.vars.id = "0001"
        /\ rendered.paths =
               << <<"easy", "/", "0001", "-", "two-sum", "/", "solution.py">>,
                  <<"easy", "/", "0001", "-", "two-sum", "/", "README.md">> >>
        /\ Contains(rendered.message,
                    <<"AC ", "0001", ". ", "Two Sum", " [", "easy", "] (", "python3", ")">>)

\* C21 (Spec): the user's retry leaves the item with retryCount 0 and no
\* lastError, and a drain attempt that fails on an item the user has reset
\* (stored retryCount 0, lastError cleared) leaves its retryCount at 1.
C21_RetryRestoresBudget ==
    /\ [][ev'.op = "retry" =>
            \E i \in 1..Len(queue') :
                /\ queue'[i].sub = ev'.sub
                /\ queue'[i].retryCount = 0
                /\ queue'[i].lastError = NoError]_vars
    /\ [][(drainPc = "commit" /\ ev'.op = "drain" /\ ev'.res = "failed") =>
            \A i \in 1..Len(queue) :
                (/\ queue[i].id = Head(drainQ).id
                 /\ queue[i].retryCount = 0
                 /\ queue[i].lastError = NoError) =>
                    /\ i <= Len(queue')
                    /\ queue'[i].retryCount = 1]_vars

\* C22 (SpecDrain): with skipDuplicates on, the drain does not start the
\* commit protocol for a queued commit whose fingerprint is in the processed
\* list, and no drain attempt ends as a successful commit of a fingerprint
\* that was in the processed list already.
C22_DrainSkipsProcessed ==
    /\ [][(/\ drainPc = "loop"
           /\ ev'.op = "drain"
           /\ skipDuplicates
           /\ generateSubmissionKey(Head(drainQ).sub) \in processed) =>
              ev'.res # "attempt"]_vars
    /\ [][(ev'.op = "drain" /\ ev'.res = "done" /\ skipDuplicates) =>
              generateSubmissionKey(ev'.sub) \notin processed]_vars

\* C23 (SpecDrain): a drain cycle whose authentication gate fails runs no
\* commit protocol and ends at once: the queue (every item's retryCount and
\* lastError included), the processed list, the in-flight set and the
\* repository are as before, and the setup prompt is shown once, however many
\* commits are queued.
C23_GateSkipsCycle ==
    [][(drainPc = "scheduled" /\ ev'.op = "drain" /\ ev'.res = "noauth") =>
        /\ queue' = queue
        /\ processed' = processed
        /\ processing' = processing
        /\ repo' = repo
        /\ drainPc' = "idle"
        /\ drainQ' = <<>>
        /\ out'.err = NoError
        /\ Len(out'.notes) = 1]_vars

\* a drain cycle over two queued commits has just been skipped at the gate
C23_SkippedWithTwo ==
    /\ ev.op = "drain" /\ ev.res = "noauth"
    /\ Len(queue) = 2
    /\ drainPc = "idle"

\* C27 (SpecDrain): in a drain cycle over commits with different ids, the
\* attempt the remote answers with a 401 raises the retryCount of its own item
\* by one, and an attempt on another item that then fails only because the
\* access token is gone leaves that item's retryCount as it was.
C27_OnlyTheRejectedItemPays ==
    [][(/\ drainPc = "commit"
        /\ ev'.op = "drain" /\ ev'.res = "failed"
        /\ \A i, j \in 1..Len(queue) : queue[i].id = queue[j].id => i = j) =>
            \A i \in 1..Len(queue) :
                queue[i].id = Head(drainQ).id =>
                    /\ out'.err = BadCredentialsError =>
                           queue'[i].retryCount = queue[i].retryCount + 1
                    /\ (/\ out'.err = NoTokenError
                        /\ \E j \in 1..Len(queue) :
                               j # i /\ queue[j].lastError = BadCredentialsError) =>
                           queue'[i].retryCount = queue[i].retryCount]_vars

\* C24 (SpecGuard): at no time are two handlers of the immediate path under
\* way for the same submission, and a SUBMISSION_ACCEPTED that arrives while
\* a handler for the same submission is under way is ignored.
C24_OneHandlerPerSubmission ==
    /\ [](\A sub \in Subs : Cardinality(InFlight(sub)) <= 1)
    /\ [][\A sub \in Subs :
            (ev'.op = "accepted" /\ ev'.sub = sub /\ ev'.res \in {"begun", "ignored"}
             /\ InFlight(sub) # {}) => ev'.res = "ignored"]_vars

\* C25 (SpecFile): when the content at the path is no longer what
\* createOrUpdateFile read, its write ends with an error and the repository
\* is left as the other writer made it.
C25_ConflictSurfaces ==
    [][(call.pc = "read" /\ call'.pc = "done" /\ repo[call.path] # call.got) =>
        (call'.err # NoError /\ repo' = repo)]_vars

\* an update carrying the hash that was read has just been answered 409,
\* and the other writer's content is in place
C25_Rejected ==
    /\ call.pc = "done"
    /\ call.branch = "update"
    /\ call.writeKind = "none"
    /\ call.writeStatus = "409"
    /\ call.err = ApiError("409", StatusBody("409"))
    /\ call.got = Ours
    /\ repo[call.path] = Theirs

\* C26 (SpecFile): getFile yields absent exactly when the remote answered
\* 404; after any other answer that is not a success it ends with an error,
\* and createOrUpdateFile does not go on to create the file.
C26_AbsentOnlyOn404 ==
    call.pc \in {"read", "done"} =>
        /\ call.absent <=> call.readStatus = "404"
        /\ call.readStatus \in {"401", "403", "409", "500"} =>
               (call.err # NoError /\ call.branch # "create")

\* C28 (SpecFile): a 403 whose JSON body reports the rate limit ends the
\* request with the rate-limit error, and a 403 whose body does not ends it
\* with the generic API error.
C28_RateLimitKind ==
    (call.pc = "done" /\ call.readStatus = "403" /\ call.writeStatus = "none") =>
        IF IsJson(FaultBody(call.readKind)) /\ Includes(FaultBody(call.readKind), "rate limit")
        THEN call.err = RateLimitError
        ELSE call.err = ApiError("403", FaultBody(call.readKind))

\* C29 (SpecFaults): a handler whose commit protocol ends with an error
\* other than that of a 401 answer leaves the secure configuration record, the
\* plain record and the session token as they were; on the immediate path the
\* submission is queued with that error as lastError, and in the drain the
\* attempt counts as failed.
C29_ClearedOnlyOn401 ==
    [][(ev'.op \in {"accepted", "drain"}
        /\ out'.err \notin {NoError, BadCredentialsError}) =>
            /\ ghConfig' = ghConfig
            /\ config' = config
            /\ tok'.session = tok.session
            /\ ev'.op = "accepted" =>
                   /\ ev'.res = "queued"
                   /\ Len(queue') = Len(queue) + 1
                   /\ queue'[Len(queue')].lastError = out'.err
            /\ ev'.op = "drain" => ev'.res = "failed"]_vars

-----------------------------------------------------------------------------
(* The validation cache with its clock: getGitHubToken at the times         *)
(* Date.now() returns, one unit of the clock standing for a part of         *)
(* CACHE_DURATION.                                                           *)

\* CACHE_DURATION (5 minutes in the code), in units of the clock, and the
\* last value of the clock
CacheDuration == 2
MaxClock == 4

CacheAtOrBefore(t, clock) ==
    IF t.cache # "none" /\ clock <= t.expires THEN t ELSE [t EXCEPT !.cache = "none"]

\* validateTokenWithCache, `cached && Date.now() < cached.expires`: the entry
\* the test lets through at the time clock
CacheAt(t, clock) ==
    IF t.cache # "none" /\ clock < t.expires THEN t ELSE [t EXCEPT !.cache = "none"]

\* validateTokenWithCache sends a request and writes an entry
Validates(c) == c.session /\ c.cache = "none"

\* getGitHubToken reaches refreshTokenFromStorage
Falls(c, v) == ~c.session \/ ~validateTokenWithCache(c, v).valid

\* the validation requests one getGitHubToken sends: validateTokenWithGitHub
\* from validateTokenWithCache, and from refreshTokenFromStorage
ValidationCalls(c, v) ==
    (IF Validates(c) THEN 1 ELSE 0)
    + (IF Falls(c, v) /\ c.meta /\ c.durable THEN 1 ELSE 0)

\* the cache after the call: a new entry expires CACHE_DURATION after the
\* time it is written (done); without a new entry the map is as it was
CacheAfter(t, c, g, done) ==
    IF Validates(c) THEN [g EXCEPT !.expires = done + CacheDuration]
    ELSE [g EXCEPT !.cache = t.cache]

\* getGitHubToken called at the time clock, its cache entry written at done
getGitHubTokenAt(t, v, clock, done) ==
    [token |-> getGitHubToken(CacheAt(t, clock), v).token,
     tok |-> CacheAfter(t, CacheAt(t, clock),
                        getGitHubToken(CacheAt(t, clock), v).tok, done),
     calls |-> ValidationCalls(CacheAt(t, clock), v),
     hit |-> CacheAt(t, clock).session /\ CacheAt(t, clock).cache # "none"]

\* what a timed getGitHubToken did: the requests it sent, whether it used a
\* cached result, when it read the clock and when it wrote the cache
Timed(g, clock, done, turn) ==
    [op |-> "get", res |-> IF g.token THEN "token" ELSE "absent", sub |-> SubA,
     kind |-> "none", auth |-> FALSE, calls |-> g.calls, hit |-> g.hit,
     at |-> clock, done |-> done, turn |-> turn]

GetTokenAt ==
    \E answer \in Answers(env), done \in {now, now + 1} :
        /\ done <= MaxClock
        /\ tok' = Tier(getGitHubTokenAt(Tier(tok, env), answer = "2xx", now, done).tok,
                       env)
        /\ now' = done
        /\ ev' = Timed(getGitHubTokenAt(Tier(tok, env), answer = "2xx", now, done),
                       now, done, IF ev.op = "get" THEN 1 - ev.turn ELSE 0)
        /\ out' = Outcome(<<>>, NoResponse, NoError, answer)
        /\ hist' = Remember(hist, ev)
        /\ UNCHANGED <<queue, processed, processing, drainPc, drainQ, skipDuplicates,
                       repo, run, ghConfig, config, env, contentSide, clientSide>>

\* time passes between two operations
Tick ==
    /\ now < MaxClock
    /\ now' = now + 1
    /\ UNCHANGED <<queue, processed, processing, drainPc, drainQ, tok, ghConfig,
                   skipDuplicates, repo, ev, run, out, config, tokenSide>>

\* performSecurityCleanup: the entries that have expired are deleted (no
\* stored token carries an expiry)
SecurityCleanup ==
    /\ tok' = [tok EXCEPT !.cache = IF now >= tok.expires THEN "none" ELSE @]
    /\ ev' = Quiet("cleanup", "done", SubA)
    /\ out' = Silent
    /\ hist' = Remember(hist, ev)
    /\ UNCHANGED <<serviceSide, ghConfig, config, env>>

NextCache ==
    \/ SetConfig
    \/ GetTokenAt
    \/ Tick
    \/ SecurityCleanup
    \/ LoseSession
    \/ Revoke

SpecCache == InitToken /\ [][NextCache]_vars

-----------------------------------------------------------------------------
(* The content script and the fields it reads beside the code: the title    *)
(* element's text, the URL's path, the language selector's text.            *)

\* window.location.pathname, by its segments
UrlPaths ==
    {<<"problems", "two-sum">>, <<"problems", "two-sum", "submissions">>,
     <<"problems">>, <<"submissions", "detail">>}

\* extractTitleSlugFromUrl: the segment after "/problems/", or ''
RECURSIVE slugAfterProblems(_)
slugAfterProblems(path) ==
    IF Len(path) < 2 THEN ""
    ELSE IF Head(path) = "problems" THEN path[2]
    ELSE slugAfterProblems(Tail(path))

extractTitleSlugFromUrl(p) == slugAfterProblems(p.path)

\* getProblemInfo: nothing without a title element; else the element's
\* trimmed text ('' when it has none) and the slug of the URL
getProblemInfo(p) ==
    [none |-> ~p.title, title |-> p.titleText, titleSlug |-> extractTitleSlugFromUrl(p)]

\* getDisplayName: the first name of LANGUAGE_EXTENSIONS with the extension
\* of the language, the text itself where it has none
getDisplayName(text) == IF text \in {"Python", "Python3"} THEN "Python" ELSE text

\* getLanguage of both variants: the selector's trimmed text unless it is
\* empty or the placeholder, else 'Unknown'
getLanguage(p) ==
    IF p.langText # "" /\ p.langText # "Select Language"
    THEN getDisplayName(p.langText) ELSE "Unknown"

\* the submission getSubmissionDetails of LeetCodeV1 and getSubmissionFromPage
\* of LeetCodeV2 build: title and titleSlug of getProblemInfo, the language
\* of getLanguage; the detail record of the query API carries its own
withPageFields(p, r) ==
    IF ~r.found \/ r.via = "graphql" THEN r
    ELSE [r EXCEPT !.s.title = getProblemInfo(p).title,
                   !.s.titleSlug = getProblemInfo(p).titleSlug,
                   !.s.language = getLanguage(p)]

\* the pages, with the three texts; the code is there or is not
FieldPages ==
    [variant : {"v1", "v2"}, accepted : BOOLEAN, hasSubmissionId : BOOLEAN,
     graphql : {NoText, Text(0, 11)}, monaco : {NoText},
     dom : {<<>>, <<Text(0, 11)>>}, textarea : {NoText}, title : BOOLEAN,
     number : {"1"}, titleText : {"", "Two Sum"}, path : UrlPaths,
     langText : {"", "Select Language", "Python3"}]

InitFields ==
    /\ Untouched
    /\ page \in FieldPages
    /\ extracted = NoSubmission
    /\ rendered = NoRender(folderLayout)

\* LeetShipLeetCodeContent.handleSubmission: the page is read
ExtractFields ==
    /\ ev.op = "init"
    /\ extracted' = withPageFields(page, getSubmissionDetails(page))
    /\ ev' = Quiet("extract",
                   IF getSubmissionDetails(page).found THEN "submission" ELSE "absent",
                   SubA)
    /\ UNCHANGED <<backgroundSide, page, rendered>>

NextFields == ExtractFields

SpecFields == InitFields /\ [][NextFields]_vars

\* C32: a submission getSubmissionDetails yields has a non-empty title,
\* titleSlug and language; and where the page is scraped, a title element
\* without text, a URL without a /problems/<slug> segment or a language
\* selector that cannot be read make it yield nothing.
C32_FailsClosed ==
    ev.op = "extract" =>
        /\ extracted.found =>
               (extracted.s.title # "" /\ extracted.s.titleSlug # ""
                /\ extracted.s.language # "")
        /\ (extracted.found /\ extracted.via # "graphql") =>
               /\ page.titleText # ""
               /\ extractTitleSlugFromUrl(page) # ""
               /\ page.langText \notin {"", "Select Language"}

\* C33 (SpecExtract): on the newer variant, with an accepted result and a
\* submission id found, a query for the detail record that fails makes
\* getSubmissionDetails return what scraping the page yields.
C33_FallsBackToPage ==
    (ev.op = "extract" /\ page.variant = "v2" /\ page.accepted
     /\ page.hasSubmissionId /\ page.graphql.none) =>
        extracted = fromPage(page, "page", getCodeV2(page))

-----------------------------------------------------------------------------
(* The content controller: one handleSubmission from the submit event to    *)
(* its end, the page changing under it, and the delayed extractions the     *)
(* mutation observer of waitForResultWithObserver schedules.                *)

\* maxAttempts of waitForSubmission (30 in the code), and the delayed
\* extractions that can be pending at once
maxAttempts == 2
MaxTimers == 2

\* what the controller's steps leave alone
pageSide ==
    <<queue, processed, processing, drainPc, drainQ, tok, ghConfig, skipDuplicates,
      repo, now, ev, run, out, config, env, hist, call, rendered, storageOps>>

\* a problem page of either variant with the solution in the editor and,
\* or not, a title element
ProblemPage(variant, title) ==
    [NoPage EXCEPT !.variant = variant, !.dom = <<Text(0, 11)>>, !.title = title]

InitContent ==
    /\ Untouched
    /\ page \in {ProblemPage(variant, title) : variant \in {"v1", "v2"}, title \in BOOLEAN}
    /\ extracted = NoSubmission
    /\ rendered = NoRender(folderLayout)

\* the notifications of the content script
FailedToProcess == "Failed to process submission"
CommunicationError == "Extension communication error"
Committed == "committed to GitHub!"

\* processSuccessfulSubmission: the message is sent; the notification
\* follows the response, or the failure of sendMessage
processSuccessfulSubmission(c, answer) ==
    [c EXCEPT !.sent = @ + 1,
              !.notes = Append(@, IF answer = "success" THEN Committed
                                  ELSE CommunicationError)]

\* handleSubmission returns: the finally block
Finished(c, how) == [c EXCEPT !.pc = "done", !.ended = how, !.isProcessing = FALSE]

\* the click on the submit button, or the keyboard shortcut: a handler
\* starts unless one is running; the page shows no result yet
Submit ==
    /\ ~controller.isProcessing
    /\ controller.timers = 0
    /\ controller' = [NoHandler EXCEPT !.isProcessing = TRUE, !.pc = "poll"]
    /\ page' = [page EXCEPT !.accepted = FALSE]
    /\ extracted' = NoSubmission
    /\ UNCHANGED pageSide

\* the page shows the verdict; an observer that is connected schedules a
\* delayed extraction
ResultShown ==
    \E accepted \in BOOLEAN :
        /\ controller.pc \notin {"idle", "done"}
        /\ ~controller.complete
        /\ page' = [page EXCEPT !.accepted = accepted]
        /\ controller' =
               [controller EXCEPT !.complete = TRUE,
                   !.timers = IF controller.pc = "observe" /\ @ < MaxTimers
                              THEN @ + 1 ELSE @]
        /\ UNCHANGED <<pageSide, extracted>>

\* any other mutation of the page while the observer is connected
Mutation ==
    /\ controller.pc = "observe"
    /\ controller.timers < MaxTimers
    /\ controller' = [controller EXCEPT !.timers = @ + 1]
    /\ UNCHANGED <<pageSide, page, extracted>>

\* waitForSubmission, checkSubmission: resolves when the page shows a result
\* or the attempts are used up
CheckSubmission ==
    /\ controller.pc = "poll"
    /\ controller' =
           [controller EXCEPT !.attempts = @ + 1,
               !.pc = IF controller.complete \/ controller.attempts + 1 >= maxAttempts
                      THEN "first" ELSE "poll"]
    /\ UNCHANGED <<pageSide, page, extracted>>

\* handleSubmission: the first extraction, and the second after the delay;
\* an extraction that throws is caught and notified
TryExtract ==
    \E threw \in BOOLEAN, answer \in {"success", "throws"} :
        /\ controller.pc \in {"first", "second"}
        /\ IF threw
           THEN /\ controller' =
                       Finished([controller EXCEPT !.notes = Append(@, FailedToProcess)],
                                "error")
                /\ UNCHANGED extracted
           ELSE /\ extracted' = getSubmissionDetails(page)
                /\ controller' =
                       IF getSubmissionDetails(page).found
                       THEN Finished(processSuccessfulSubmission(controller, answer), "sent")
                       ELSE [controller EXCEPT
                                !.pc = IF @ = "first" THEN "second" ELSE "observe"]
        /\ UNCHANGED <<pageSide, page>>

\* waitForResultWithObserver, the callback of setTimeout(..., 1000): it runs
\* whether or not the observer is still connected; a submission is sent, and
\* the wait resolves if it has not yet; what it throws is lost
DelayedExtract ==
    \E threw \in BOOLEAN, answer \in {"success", "throws"} :
        /\ controller.timers > 0
        /\ IF threw \/ ~getSubmissionDetails(page).found
           THEN /\ controller' = [controller EXCEPT !.timers = @ - 1]
                /\ UNCHANGED extracted
           ELSE /\ extracted' = getSubmissionDetails(page)
                /\ controller' =
                       IF controller.pc = "observe"
                       THEN Finished(processSuccessfulSubmission(
                                         [controller EXCEPT !.timers = @ - 1], answer),
                                     "sent")
                       ELSE processSuccessfulSubmission(
                                [controller EXCEPT !.timers = @ - 1], answer)
        /\ UNCHANGED <<pageSide, page>>

\* waitForResultWithObserver, the 10 s timeout: the observer is disconnected
\* and the wait resolves false; handleSubmission returns
ObserverTimeout ==
    /\ controller.pc = "observe"
    /\ controller' = Finished(controller, "timeout")
    /\ UNCHANGED <<pageSide, page, extracted>>

NextContent ==
    \/ Submit
    \/ ResultShown
    \/ Mutation
    \/ CheckSubmission
    \/ TryExtract
    \/ DelayedExtract
    \/ ObserverTimeout

SpecContent == InitContent /\ [][NextContent]_vars

\* C34: when the handler of a submit event has ended, either a Submission
\* was sent to the background layer or the controller has shown its failure
\* notification, and not both; it never ends with neither.
C34_SentOrNotified ==
    controller.pc = "done" =>
        (controller.sent >= 1) # Includes(controller.notes, FailedToProcess)

\* C39 (SpecContent): for one submit event at most one SUBMISSION_ACCEPTED
\* message is sent, however many page mutations the observer saw before
\* the first delayed extraction ran; and once the wait has timed out no
\* message is sent for that event.
C39_AtMostOneMessage ==
    /\ [](controller.sent <= 1)
    /\ [][(controller.pc = "done" /\ controller.ended = "timeout") =>
              controller'.sent <= controller.sent]_vars

-----------------------------------------------------------------------------
(* Storage-corruption recovery: the options page's handleStorageCorruption  *)
(* beside the handler of accepted submissions, which fills the queue and    *)
(* the processed list it meets.                                             *)

\* clearCorruptedData, the try block: the github fields of the plain record
\* are blanked and stored with setConfig, then the queue, the auth state and
\* the processed list are removed from storage.local
CorruptedCleared ==
    /\ tok' = IF config = "none" THEN tok ELSE storeGitHubToken(tok, FALSE, FALSE)
    /\ ghConfig' = IF config = "none" THEN ghConfig ELSE "blank"
    /\ config' = IF config = "none" THEN "none" ELSE "blank"
    /\ queue' = <<>>
    /\ processed' = {}
    /\ UNCHANGED skipDuplicates

\* clearCorruptedData, the catch block, reached when storeGitHubToken throws
\* inside setConfig: clearAll; the settings are the defaults again
EverythingCleared ==
    /\ tok' = [clearAllTokens(tok, env) EXCEPT !.fallback = FALSE, !.session = FALSE]
    /\ ghConfig' = "none"
    /\ config' = "none"
    /\ queue' = <<>>
    /\ processed' = {}
    /\ skipDuplicates' = TRUE

\* OptionsPage.handleStorageCorruption -> StorageManager.clearCorruptedData
ClearCorruptedData ==
    \E threw \in BOOLEAN :
        /\ threw => config # "none"
        /\ IF threw THEN EverythingCleared ELSE CorruptedCleared
        /\ ev' = Quiet("recover", IF threw THEN "all" ELSE "fields", SubA)
        /\ out' = Silent
        /\ UNCHANGED <<processing, drainPc, drainQ, repo, now, run, tokenSide>>

NextRecovery ==
    \/ AuthWithPAT
    \/ SubmissionAccepted
    \/ ClearCorruptedData

SpecRecovery == Init /\ [][NextRecovery]_vars

\* C35: storage-corruption recovery leaves the persisted commit queue, the
\* processed-fingerprint set and the settings as they were.
C35_RecoveryFrame ==
    [][ev'.op = "recover" =>
          (queue' = queue /\ processed' = processed
           /\ skipDuplicates' = skipDuplicates)]_vars

\* C36 (SpecDrain): in every reachable state the ids of the queued commits
\* are pairwise distinct, also for two submissions queued in the same
\* millisecond of the clock.
C36_DistinctIds ==
    \A i, j \in 1..Len(queue) : i # j => queue[i].id # queue[j].id

\* C37 (Spec): a fingerprint enters the processed set only in the step in
\* which the commit protocol, run for the submission it belongs to, has
\* resolved with the solution and the per-problem README written; no step
\* that fails, skips, queues or abandons a submission adds one.
C37_MarkedAfterCommit ==
    [][\A k \in processed' \ processed :
          /\ ev'.res \in {"committed", "done"}
          /\ k = generateSubmissionKey(ev'.sub)
          /\ out'.err = NoError
          /\ repo'[SolutionPath(ev'.sub)] = Content("code", ev'.sub.code)
          /\ repo'[ProblemReadmePath(ev'.sub)] # Absent]_vars

\* a queued commit that the drain has committed and marked
C37_MarkedByDrain ==
    /\ ev.op = "drain" /\ ev.res = "done"
    /\ generateSubmissionKey(ev.sub) \in processed
    /\ queue = <<>>
    /\ repo[SolutionPath(ev.sub)] = Content("code", ev.sub.code)

\* C40 (SpecCommit): after a run of the commit protocol that the remote
\* answered without fault and that resolved, with the default folder layout,
\* the README just written is among those the re-derivation of the
\* aggregate README finds, and the aggregate README written counts it.
C40_ReadmeCountsCommit ==
    (run.ok /\ run.plan = CleanPlan) =>
        /\ ProblemReadmePath(SubA) \in getAllSolutions(repo)
        /\ repo[RootReadme].kind = "index"
        /\ repo[RootReadme].body[1] >= 1

-----------------------------------------------------------------------------
(* The queue operations of StorageManager in two steps each: getCommitQueue *)
(* reads the whole list, and after the await storage.local.set writes the   *)
(* list computed from what was read. The immediate path, the drain and the  *)
(* options page each have one operation under way at most.                  *)

\* what the queue operations leave alone
queueSide ==
    <<processed, processing, drainPc, drainQ, tok, ghConfig, skipDuplicates, repo,
      ev, run, out, config, env, hist, page, extracted, rendered, call, controller>>

\* an operation that has read the list snap
Reading(op, id, snap, retryCount, lastError) ==
    [op |-> op, id |-> id, snap |-> snap, retryCount |-> retryCount,
     lastError |-> lastError]

Ids(q) == {q[i].id : i \in 1..Len(q)}

\* queueSubmissionForRetry -> addToCommitQueue, up to the await of
\* getCommitQueue; the clock has moved on when the next commit is queued
AddRead ==
    /\ storageOps.at["immediate"] = NoOp
    /\ now <= MaxNow
    /\ storageOps' = [storageOps EXCEPT
           !.at["immediate"] = Reading("add", RetryId(now), queue, 0, NetworkError)]
    /\ now' = now + 1
    /\ UNCHANGED <<queue, queueSide>>

\* removeFromCommitQueue up to the await of getCommitQueue: by the drain
\* after a commit or for an item that has used its retries, by the options
\* page for the item the user removes
RemoveRead ==
    \E p \in {"drain", "options"}, i \in 1..Len(queue) :
        /\ storageOps.at[p] = NoOp
        /\ storageOps' = [storageOps EXCEPT
               !.at[p] = Reading("remove", queue[i].id, queue, 0, NoError)]
        /\ UNCHANGED <<queue, now, queueSide>>

\* updateCommitInQueue up to the await of getCommitQueue: by the drain after
\* a failed attempt (retryCount + 1), by the options page for a retry
\* (retryCount 0)
UpdateRead ==
    \E p \in {"drain", "options"}, i \in 1..Len(queue) :
        /\ storageOps.at[p] = NoOp
        /\ p = "drain" => queue[i].retryCount < RetryLimit
        /\ storageOps' = [storageOps EXCEPT
               !.at[p] = IF p = "drain"
                         THEN Reading("update", queue[i].id, queue,
                                      queue[i].retryCount + 1, NetworkError)
                         ELSE Reading("update", queue[i].id, queue, 0, NoError)]
        /\ UNCHANGED <<queue, now, queueSide>>

\* the list an operation writes: computed from the list it read
Written(o) ==
    CASE o.op = "add" ->
             addToCommitQueue(o.snap, [id |-> o.id, sub |-> SubA, retryCount |-> 0,
                                       lastError |-> o.lastError])
      [] o.op = "remove" -> removeFromCommitQueue(o.snap, o.id)
      [] OTHER -> updateCommitInQueue(o.snap, o.id, o.retryCount, o.lastError)

\* storage.local.set, and the operation returns
QueueWrite ==
    \E p \in Callers :
        /\ storageOps.at[p] # NoOp
        /\ queue' = Written(storageOps.at[p])
        /\ storageOps' =
               [storageOps EXCEPT
                   !.at[p] = NoOp,
                   !.added = IF storageOps.at[p].op = "add"
                             THEN @ \cup {storageOps.at[p].id} ELSE @,
                   !.removed = IF storageOps.at[p].op = "remove"
                               THEN @ \cup {storageOps.at[p].id} ELSE @]
        /\ UNCHANGED <<now, queueSide>>

NextQueue ==
    \/ AddRead
    \/ RemoveRead
    \/ UpdateRead
    \/ QueueWrite

SpecQueue == Init /\ [][NextQueue]_vars

\* C38: under every interleaving of the reads and writes of an enqueue, a
\* drain step and a user action, a commit whose addToCommitQueue has
\* returned is in the queue until a removeFromCommitQueue for it has
\* returned, and is not in the queue afterwards.
C38_NoLostMutation ==
    /\ \A id \in storageOps.added \ storageOps.removed : id \in Ids(queue)
    /\ \A id \in storageOps.removed : id \notin Ids(queue)

====
